---- MODULE Spec2Model ----
(***************************************************************************)
(* RPC-over-HTTP gateway core of gromox (exch/http/http_parser.cpp).       *)
(*                                                                         *)
(* The model has one thread per HTTP context of the pool (the scheduler    *)
(* runs http_parser_process on a context from one thread at a time) and    *)
(* one thread for asynchronous reply producers.  A handler runs            *)
(* atomically up to its next operation on a virtual connection (VC).  An   *)
(* operation is three steps:                                               *)
(*   - the lookup, http_parser_get_vconnection: the critical section of    *)
(*     the registry mutex that counts the reference;                       *)
(*   - the body: the VCONN_REF constructor takes the mutex of the VC and   *)
(*     the code between get and put runs;                                  *)
(*   - VCONN_REF::put: the mutex of the VC is released and the critical    *)
(*     section of the registry mutex drops the reference.                  *)
(* A critical section of the registry mutex never blocks, so it is one     *)
(* step; g_vconnection_lock records the VC mutexes its thread held then,   *)
(* and access the guarded objects a step touched without the VC mutex.     *)
(***************************************************************************)
EXTENDS Integers, Sequences, FiniteSets, TLC

\* ---------------------------------------------------------------- bounds
\* size of the context pool (http.cfg context_num, http_parser_init)
g_context_num == 3
\* connections the listener accepts over a run
MaxAccept == 3
\* request heads parsed over a run
MaxRequests == 3
\* RPC fragments the clients send on IN channels over a run
MaxPdu == 2
\* RTS PDUs of one kind the clients send over a run
MaxRts == 1
\* PDUs of one kind produced outside the request path (pings, asynchronous
\* replies, flow control acks, OUT_R2/A2)
MaxExtra == 1
\* failures of collaborators and of the network over a run
MaxFault == 1
\* connections the clients drop over a run
MaxClose == 2
\* connection cookies the clients use: virtual connections over a run
MaxVc == 2
\* the largest value of a 32-bit counter (available_window, bytes_sent,
\* bytes_received), in the unit of length of the model: 1 KiB
MaxWord == 7
\* the length of an RPC PDU; an RTS PDU has length 1
MaxPduLen == 2

\* ------------------------------------------------------------- constants
NULL == 0
NoThread == -1
\* the thread of the asynchronous reply producers
Async == 0
\* htparse_wrrep, line 1139: an opened OUT channel writes nothing while its
\* window is below 1024 bytes
MinWindow == 1
\* line 53: OUT_R2/A2 is due when so much of the advertised length is left
MAX_RECLYING_REMAINING == 3
\* line 76: the time an OUT channel waits for its IN channel, in ticks of
\* the clock of the model
OUT_CHANNEL_MAX_WAIT == 1
\* line 106: http.cfg http_conn_timeout, in ticks
g_timeout == 2

\* max_auth_times of the configuration
g_max_auth_times == 2
\* a Content-Length of a tunnel request that the body reaches, in PDUs
BodyLen == 2
\* the bytes of one block of a STREAM
STREAM_BLOCK_SIZE == 3
\* the blocks a STREAM may span
MaxBlocks == 3
\* http_request::uri_limit, declared outside http_parser.cpp; any value
\* above 1024 serves
uri_limit == 8000
Contexts == 1 .. g_context_num
\* the threads that call http_parser_vconnection_async_reply
AsyncThreads == {Async, g_context_num + 1}
Threads == Contexts \cup AsyncThreads
\* connection cookies the clients may present (host and port are fixed):
\* enough keys to fill the registry and ask for one more
Cookies == 1 .. (g_context_num + 2)
\* channel cookies the clients present
ChannelCookies == 1 .. 2
\* the kinds of RTS PDUs the RTS parser tells apart
RtsKinds == {"conn_a1", "conn_b1", "inr2_a1", "outr2_a3", "outr2_c1",
             "inr2_a5", "outr2_a7", "flowcontrolack", "keepalive", "ping",
             "bad"}
\* what the auth backend answers for the credentials of a request
Logins == {"none", "denied", "good", "nomaildir", "bad"}
\* the results pdu_processor_input may hand back for a request fragment
ProcessorResults == {"INPUT", "OUTPUT", "ERROR", "TERMINATE"}
\* the things the environment does a bounded number of times
EnvKinds == {"accepts", "requests", "pdus", "pings", "asyncs",
             "closes", "drops", "faults", "stops", "zeros"} \cup RtsKinds

VARIABLES
    ctx,                 \* g_context_list: the HTTP contexts
    chan,                \* the RPC_IN_CHANNEL / RPC_OUT_CHANNEL a context owns
    g_vconnection_hash,  \* the registry of virtual connections
    g_vconnection_lock,  \* VC mutexes held by the thread that ran the last
                         \* critical section of the registry mutex
    g_async_stop,
    pc,                  \* position of every thread
    frame,               \* the VCONN_REF and locals of the running operation
    access,              \* guarded objects the last step touched without
                         \* the mutex of their VC
    env,                 \* what the bounded environment has done so far
                         \* (n), and what it may do at all (max)
    crashed              \* a null pointer was dereferenced

vars == <<ctx, chan, g_vconnection_hash, g_vconnection_lock, g_async_stop,
          pc, frame, access, env, crashed>>

\* ------------------------------------------------------------ data model
\* a PDU blob (BLOB_NODE): its kind, and for RPC responses the number of the
\* request fragment it answers
Pdu(kind, n) == [kind |-> kind, n |-> n]
\* write_buff == nullptr
NoBuf == Pdu("null", 0)
\* write_buff points into stream_out
StreamBuf == Pdu("stream", 0)

\* the FlowControlAckWithDestination PDU the server builds
Ack(bytes_received, window, cookie) ==
    [kind |-> "flowcontrolack", n |-> bytes_received, window |-> window,
     cookie |-> cookie]

\* BLOB_NODE::b_rts: the PDU is an RTS PDU, not a response of the processor
b_rts(p) == p.kind \notin {"rsp", "async"}

\* BLOB_NODE::blob.cb: the length of a PDU
blob_cb(p) == IF b_rts(p) THEN 1 ELSE MaxPduLen

\* arithmetic of uint32_t
Word(x) == x % (MaxWord + 1)

\* a request URI: what it starts with, the number of bytes between that
\* and the first ':' (or the end), whether there is a ':', and the text
\* after it
Uri(form, host, colon, port) ==
    [form |-> form, host |-> host, colon |-> colon, port |-> port]

NoUri == Uri("", 0, FALSE, "")
OkUri == Uri("/rpc/rpcproxy.dll?", 9, TRUE, "443")
BadUri == Uri("/", 9, FALSE, "")

\* strlen of the parts of a URI
FormLen(form) ==
    CASE form = "/rpc/rpcproxy.dll?" -> 18
      [] form = "/rpcwithcert/rpcproxy.dll?" -> 26
      [] form = "/" -> 1
      [] OTHER -> 0

PortLen(port) ==
    CASE port = "443" -> 3
      [] port = "0x1bb" -> 5
      [] port = "abc" -> 3
      [] OTHER -> 0

uri_len(u) ==
    FormLen(u.form) + u.host + (IF u.colon THEN 1 + PortLen(u.port) ELSE 0)

\* the URI grammar of the tunnel requests:
\* (/rpc|/rpcwithcert)/rpcproxy.dll?<host>:<port>, host of at most 127
\* bytes, port decimal
WellFormed(u) ==
    /\ u.form \in {"/rpc/rpcproxy.dll?", "/rpcwithcert/rpcproxy.dll?"}
    /\ u.colon
    /\ u.host <= 127
    /\ u.port = "443"

\* htp_delegate_rpc, lines 740-767: the tests that end in 400; the port is
\* handed to strtol (line 769) and not tested
rpc_uri_400(u) ==
    \/ uri_len(u) = 0
    \/ uri_len(u) >= 1024
    \/ u.form \notin {"/rpc/rpcproxy.dll?", "/rpcwithcert/rpcproxy.dll?"}
    \/ ~u.colon
    \/ u.host > 128

\* a STREAM: the bytes written to it, laid out from the start of its first
\* block in blocks of STREAM_BLOCK_SIZE, and the read position; the write
\* position is the end of the bytes
Stream(data, rd) == [data |-> data, rd_total_pos |-> rd]

\* STREAM(&g_blocks_allocator)
NoStream == Stream(<<>>, 0)

\* the bytes of a STREAM not yet read
unread(s) == SubSeq(s.data, s.rd_total_pos + 1, Len(s.data))

\* HTTP_CONTEXT after http_parser_context_clear
ClearContext ==
    [sockd |-> FALSE, sched_stat |-> "initssl", method |-> "", uri |-> NoUri,
     stream_out |-> <<>>, write_buff |-> NoBuf, write_offset |-> 0,
     total_length |-> 0, bytes_rw |-> 0, elapsed |-> 0, b_close |-> TRUE,
     b_authed |-> FALSE, maildir |-> "", channel_type |-> "none",
     pchannel |-> "null", in_charge |-> "none", attempt |-> "none",
     asked |-> <<>>, auth_times |-> 0, streak |-> 0, blocked |-> FALSE,
     stream_in |-> <<>>, stream |-> NoStream, tl |-> 0, rebuilt |-> FALSE]

\* a freshly constructed channel object
NewChannel ==
    [channel_stat |-> "openstart", connection_cookie |-> 0,
     channel_cookie |-> 0, b_obsolete |-> FALSE, pcall |-> FALSE,
     available_window |-> 0, window_size |-> 0, bytes_sent |-> 0,
     bytes_received |-> 0, acked |-> 0, client_keepalive |-> 0,
     pdu_list |-> <<>>, enq |-> <<>>, sent |-> <<>>]

\* an empty slot of the registry / a default-constructed VIRTUAL_CONNECTION
NoVconn ==
    [present |-> FALSE, reference |-> 0, lock |-> NoThread,
     pprocessor |-> FALSE, pcontext_in |-> NULL, pcontext_insucc |-> NULL,
     pcontext_out |-> NULL, pcontext_outsucc |-> NULL]

NewVconn == [NoVconn EXCEPT !.present = TRUE]

NoFrame == [op |-> "", k |-> 0, found |-> FALSE, ret |-> "idle", arg |-> 0,
            res |-> "", pdu |-> NoBuf, ack |-> NoBuf, signal |-> NULL]

NoAccess == {}

\* the registry mutex is free and was not taken in the last step
Free == {}

\* the state after http_parser_init / http_parser_run, with the environment
\* that limit describes
Start(limit) ==
    /\ ctx = [c \in Contexts |-> ClearContext]
    /\ chan = [c \in Contexts |-> NewChannel]
    /\ g_vconnection_hash = [k \in Cookies |-> NoVconn]
    /\ g_vconnection_lock = Free
    /\ g_async_stop = FALSE
    /\ pc = [t \in Threads |-> "idle"]
    /\ frame = [t \in Threads |-> NoFrame]
    /\ access = NoAccess
    /\ env = [n |-> [e \in EnvKinds |-> 0], max |-> limit]
    /\ crashed = FALSE

\* ------------------------------------------------------------- helpers
\* http.cfg http_support_tls (g_support_tls)
g_support_tls == env.max.tls

RpcMethods == {"RPC_IN_DATA", "RPC_OUT_DATA"}

\* g_vconnection_hash.find(key) != end()
hash_find(h, k) == k \in DOMAIN h /\ h[k].present

\* g_vconnection_hash.size()
hash_size(h) == Cardinality({k \in DOMAIN h : h[k].present})

hash_full_never(h) == FALSE

\* line 1935: g_vconnection_hash.size() >= g_context_num + 1
hash_full(h) == hash_size(h) >= g_context_num + 1

\* threads that hold a counted reference to the VC with key k
Borrowers(k) ==
    {t \in Threads : /\ frame[t].k = k
                     /\ frame[t].found
                     /\ pc[t] \in {"body", "put"}}

\* VC mutexes a thread holds in the registry h
Held(h, t) == {k \in DOMAIN h : h[k].lock = t}

HeldBy(t) == Held(g_vconnection_hash, t)

\* thread t runs a critical section of the registry mutex; h is the registry
\* at the moment it takes the mutex
Taken(h, t) == {<<t, k>> : k \in Held(h, t)}

\* the context is the active IN or OUT context of a VC in the registry
Bound(c) ==
    \E k \in Cookies : /\ g_vconnection_hash[k].present
                       /\ c \in {g_vconnection_hash[k].pcontext_in,
                                 g_vconnection_hash[k].pcontext_out}

\* thread t touches the guarded objects of VC k (its slots, the queues of
\* its channels, its processor) in this step: an access to report unless t
\* holds the mutex of the VC when the step is over; registry tells whether
\* the step is a critical section of the registry mutex
Unguarded(t, k, registry) ==
    IF g_vconnection_hash'[k].lock = t THEN {}
    ELSE {[t |-> t, k |-> k, registry |-> registry]}

Touch(t, k) == Unguarded(t, k, FALSE)

\* pvconnection->pcontext_X->pchannel is dereferenced as a channel of kind ty
BadChannel(c, ty) == c # NULL /\ ctx[c].pchannel # ty

\* pdu_processor_output_pdu(pcall, &list): the PDU joins the tail of the list
output_pdu(ch, p) ==
    [ch EXCEPT !.pdu_list = Append(@, p), !.enq = Append(@, p)]

\* the environment does one more thing of a bounded kind
Spend(what) == env' = [env EXCEPT !.n[what] = @ + 1]

\* the environment may still do that
May(what) == env.n[what] < env.max.n[what]

\* a collaborator or the network may still fail
MayFail == May("faults")

\* tp_now() - connection.last_timestamp has reached limit (environments
\* without a clock have timeouts among their faults)
TimedOut(c, limit) == env.max.clock /\ ctx[c].elapsed >= limit

\* connection.last_timestamp = current_time
Stamp(r) == [r EXCEPT !.elapsed = 0]

\* --------------------------------------------- VCONN_REF and the registry
\* pvconnection->reference ++ (under g_vconnection_lock)
VCONN_REF_get(v) == [v EXCEPT !.reference = @ + 1]

\* a VCONN_REF constructor that does not take the mutex of the VC
VCONN_REF_ctor_nolock(v, t) == v

\* VCONN_REF constructor: m_hold(p->lock) takes the mutex of the VC
VCONN_REF_ctor(v, t) == [v EXCEPT !.lock = t]

\* a VCONN_REF::put that keeps the mutex of the VC
VCONN_REF_unlock_keep(v) == v

\* VCONN_REF::put: m_hold.unlock()
VCONN_REF_unlock(v) == [v EXCEPT !.lock = NoThread]

\* a removal test that does not look at the reference count
put_removable_unbound(v) == v.pcontext_in = NULL /\ v.pcontext_out = NULL

\* the test of VCONN_REF::put that decides the removal from the registry
put_removable(v) ==
    v.reference = 0 /\ v.pcontext_in = NULL /\ v.pcontext_out = NULL

\* VCONN_REF::put under g_vconnection_lock: drop the count, extract the node
VCONN_REF_put(v) ==
    LET w == [v EXCEPT !.reference = @ - 1]
    IN IF put_removable(w) THEN NoVconn ELSE w

\* http_parser_get_vconnection on the registry h
get_vconnection(h, k) ==
    IF hash_find(h, k) THEN [h EXCEPT ![k] = VCONN_REF_get(@)] ELSE h

\* a thread leaves its handler without touching the registry
Leave(t, label) ==
    /\ pc' = [pc EXCEPT ![t] = label]
    /\ frame' = [frame EXCEPT ![t] = NoFrame]
    /\ g_vconnection_lock' = Free
    /\ UNCHANGED g_vconnection_hash

\* a thread starts an operation on the VC with connection cookie k:
\* http_parser_get_vconnection looks it up and counts the reference
Call(t, op, k, ret, arg, res, pdu) ==
    /\ pc' = [pc EXCEPT ![t] = "body"]
    /\ frame' = [frame EXCEPT ![t] =
                   [op |-> op, k |-> k,
                    found |-> hash_find(g_vconnection_hash, k),
                    ret |-> ret, arg |-> arg, res |-> res, pdu |-> pdu,
                    ack |-> frame[t].ack, signal |-> NULL]]
    /\ g_vconnection_lock' = Taken(g_vconnection_hash, t)
    /\ g_vconnection_hash' = get_vconnection(g_vconnection_hash, k)

\* the hash with the mutex of VC k taken by t (when the lookup found it)
Locked(t) ==
    IF frame[t].found
    THEN [g_vconnection_hash EXCEPT ![frame[t].k] = VCONN_REF_ctor(@, t)]
    ELSE g_vconnection_hash

\* a critical section may start: the lookup is done and the mutex is free
AtBody(t, op) ==
    /\ ~crashed
    /\ pc[t] = "body"
    /\ frame[t].op = op
    /\ frame[t].found => g_vconnection_hash[frame[t].k].lock = NoThread

\* after the critical section: on to VCONN_REF::put, or straight on when the
\* lookup found nothing
AfterBody(t, ret, res) ==
    /\ pc' = [pc EXCEPT ![t] = IF frame[t].found THEN "put" ELSE ret]
    /\ frame' = [frame EXCEPT ![t].ret = ret, ![t].res = res]
    /\ g_vconnection_lock' = Free

\* VCONN_REF::put (explicit, or the destructor at the end of the scope)
Put(t) ==
    /\ ~crashed
    /\ pc[t] = "put"
    /\ LET k == frame[t].k
           h == [g_vconnection_hash EXCEPT ![k] = VCONN_REF_unlock(@)]
       IN /\ g_vconnection_lock' = Taken(h, t)
          /\ g_vconnection_hash' = [h EXCEPT ![k] = VCONN_REF_put(@)]
          \* pcontext_in and pcontext_out are read once the count is 0
          /\ access' = IF h[k].reference = 1 THEN Unguarded(t, k, TRUE)
                       ELSE NoAccess
    /\ pc' = [pc EXCEPT ![t] = frame[t].ret]
    /\ frame' = [frame EXCEPT ![t].op = "", ![t].k = 0, ![t].found = FALSE,
                              ![t].ret = "idle", ![t].signal = NULL]
    /\ UNCHANGED <<ctx, chan, g_async_stop, env, crashed>>

\* a null or mistyped channel pointer is dereferenced
Crash ==
    /\ crashed' = TRUE
    /\ access' = NoAccess
    /\ g_vconnection_lock' = Free
    /\ UNCHANGED <<ctx, chan, g_vconnection_hash, g_async_stop, pc, frame,
                   env>>

\* ------------------------------------------------------ context life cycle
\* http_done: an error page is queued and the context will close after it
http_done(r, code) ==
    [r EXCEPT !.b_close = TRUE, !.in_charge = "none",
              !.stream_out = Append(@, code), !.sched_stat = "wrrep"]

\* the 401 reply with the Basic challenge (htp_auth, htp_delegate_rpc)
reply_401(r) ==
    [r EXCEPT !.stream_out = Append(@, "401c"), !.sched_stat = "wrrep"]

\* http_parser_process got runoff from the handler: http_end.  A context
\* with a channel first unbinds from its VC; r is the context as the handler
\* left it.
HttpEnd(c, r) ==
    IF r.pchannel # "null"
    THEN /\ ctx' = [ctx EXCEPT ![c] = [r EXCEPT !.in_charge = "none"]]
         /\ Call(c, "end", chan[c].connection_cookie, "end_free", 0, "", NoBuf)
    ELSE /\ ctx' = [ctx EXCEPT ![c] = ClearContext]
         /\ Leave(c, "idle")

\* the handler returned st with the context as r: back to the scheduler, or
\* on to http_end
Return(c, res) ==
    IF res.st = "runoff" THEN HttpEnd(c, res.r)
    ELSE /\ ctx' = [ctx EXCEPT ![c] = res.r]
         /\ Leave(c, "idle")

\* a handler may run on the context: the scheduler dispatches it
Dispatch(c, stat) ==
    /\ ~crashed
    /\ pc[c] = "idle"
    /\ ctx[c].sockd
    /\ ctx[c].sched_stat = stat

\* the listener takes the first free context of the pool for a connection
Accept(c) ==
    /\ ~crashed
    /\ pc[c] = "idle"
    /\ ~ctx[c].sockd
    /\ \A c2 \in Contexts : c2 < c => ctx[c2].sockd
    /\ May("accepts")
    /\ Spend("accepts")
    /\ ctx' = [ctx EXCEPT ![c] =
                 [ClearContext EXCEPT
                     !.sockd = TRUE,
                     !.sched_stat = IF g_support_tls THEN "initssl"
                                    ELSE "rdhead"]]
    /\ access' = NoAccess
    /\ g_vconnection_lock' = Free
    /\ UNCHANGED <<chan, g_vconnection_hash, g_async_stop, pc, frame, crashed>>

\* htparse_initssl
InitSsl(c) ==
    /\ Dispatch(c, "initssl")
    /\ \/ \* SSL_accept succeeded
          /\ Return(c, [r |-> [ctx[c] EXCEPT !.sched_stat = "rdhead"],
                        st |-> "cont"])
          /\ UNCHANGED env
       \/ \* SSL_new failed (5032), handshake failure, or timeout (408)
          /\ MayFail
          /\ Spend("faults")
          /\ \E how \in {"5032", "408", "lost"} :
                Return(c, IF how = "lost" THEN [r |-> ctx[c], st |-> "runoff"]
                          ELSE [r |-> http_done(ctx[c], how), st |-> "loop"])
       \/ \* lines 505-509: the handshake has lasted g_timeout
          /\ TimedOut(c, g_timeout)
          /\ Return(c, [r |-> http_done(ctx[c], "408"), st |-> "loop"])
          /\ UNCHANGED env
    /\ access' = NoAccess
    /\ UNCHANGED <<chan, g_async_stop, crashed>>

\* ------------------------------------------------------------ request head
\* htp_auth: st is the tproc_status handed back ("runoff": go on)
\* lines 688-695: a failed login counts, and the user is put on the temp
\* list once the count is g_max_auth_times; streak counts the failures since
\* the last login that succeeded, blocked records the call of
\* system_services_add_user_into_temp_list
auth_failed(r) ==
    [r EXCEPT !.b_authed = FALSE,
              !.auth_times = @ + 1,
              !.streak = @ + 1,
              !.blocked = (r.auth_times + 1 >= g_max_auth_times)]

htp_auth(r, login) ==
    CASE login = "denied" ->
            [r |-> http_done(r, "503"), st |-> "loop"]
      [] login = "good" ->
            [r |-> [r EXCEPT !.maildir = "set", !.b_authed = TRUE,
                             !.streak = 0],
             st |-> "runoff"]
      [] login = "nomaildir" ->
            \* mres.maildir is empty: 401, b_authed is left as it was
            [r |-> reply_401([r EXCEPT !.maildir = ""]), st |-> "loop"]
      [] OTHER ->
            [r |-> reply_401(auth_failed(r)), st |-> "loop"]

\* htp_auth_1: no (decodable) Authorization header leaves the context alone
htp_auth_1(r, login) ==
    IF login = "none" THEN [r |-> r, st |-> "runoff"] ELSE htp_auth(r, login)

\* a htp_delegate_rpc that goes on to the body without a channel
rpc_channel_unchecked(r, method, clen, alloc) ==
    LET ty == IF method = "RPC_IN_DATA" THEN "in" ELSE "out"
    IN IF clen = "echo"
       THEN [r EXCEPT !.sched_stat = "rdbody"]
       ELSE [r EXCEPT !.channel_type = ty,
                      !.pchannel = IF alloc THEN ty ELSE "null",
                      !.sched_stat = "rdbody"]

\* htp_delegate_rpc, lines 796-813: the channel is allocated for a body
\* longer than an ECHO request; alloc is what the allocator hands out
rpc_channel(r, method, clen, alloc) ==
    LET ty == IF method = "RPC_IN_DATA" THEN "in" ELSE "out"
    IN IF clen = "echo"
       THEN [r EXCEPT !.sched_stat = "rdbody"]
       ELSE IF alloc
            THEN [r EXCEPT !.channel_type = ty, !.pchannel = ty,
                           !.sched_stat = "rdbody"]
            ELSE http_done([r EXCEPT !.channel_type = ty,
                                     !.pchannel = "null"], "5032")

\* a htp_delegate_rpc that does not ask for authentication
htp_delegate_rpc_open(r, method, uri, clen, alloc) ==
    IF rpc_uri_400(uri) THEN http_done(r, "400")
    ELSE rpc_channel(r, method, clen, alloc)

\* htp_delegate_rpc
htp_delegate_rpc(r, method, uri, clen, alloc) ==
    IF rpc_uri_400(uri) THEN http_done(r, "400")
    ELSE IF ~r.b_authed THEN reply_401(r)
    ELSE rpc_channel(r, method, clen, alloc)

\* htp_delegate_hpm / htp_delegate_fcgi / htp_delegate_cache: the handler
\* took the request (status 200); how is how it fares with the head
htp_delegate_other(r, who, how) ==
    CASE how = "bad" -> http_done(r, "400")
      [] how = "more" -> [r EXCEPT !.in_charge = who, !.sched_stat = "rdbody"]
      [] how = "fail" -> http_done(r, IF who = "hpm" THEN "400" ELSE "502")
      [] how = "nomem" -> http_done(r, "5032")
      [] OTHER ->
            \* an HPM handler has its response in stream_out already
            IF who = "hpm"
            THEN [r EXCEPT !.in_charge = who, !.sched_stat = "wrrep",
                           !.stream_out = Append(@, "200"),
                           !.write_buff = StreamBuf]
            ELSE [r EXCEPT !.in_charge = who, !.sched_stat = "wrrep"]

\* one answer of a handler to *_take_request
Asked(h, s) == [h |-> h, s |-> s]

take_request_fcgi_first(req) ==
    IF req.fcgi = "200"
    THEN [who |-> "fcgi", status |-> "200",
          asked |-> <<Asked("fcgi", req.fcgi)>>]
    ELSE IF req.fcgi # "0"
    THEN [who |-> "none", status |-> req.fcgi,
          asked |-> <<Asked("fcgi", req.fcgi)>>]
    ELSE IF req.hpm = "200"
    THEN [who |-> "hpm", status |-> "200",
          asked |-> <<Asked("fcgi", req.fcgi), Asked("hpm", req.hpm)>>]
    ELSE IF req.hpm # "0"
    THEN [who |-> "none", status |-> req.hpm,
          asked |-> <<Asked("fcgi", req.fcgi), Asked("hpm", req.hpm)>>]
    ELSE IF req.cache = "200"
    THEN [who |-> "cache", status |-> "200",
          asked |-> <<Asked("fcgi", req.fcgi), Asked("hpm", req.hpm),
                      Asked("cache", req.cache)>>]
    ELSE [who |-> "none",
          status |-> IF req.cache # "0" THEN req.cache ELSE "404",
          asked |-> <<Asked("fcgi", req.fcgi), Asked("hpm", req.hpm),
                      Asked("cache", req.cache)>>]

\* lines 931-946: hpm_processor_take_request, mod_fastcgi_take_request and
\* mod_cache_take_request in turn; who is the handler that took the request,
\* status the reply when none did, asked the answers that were collected
take_request(req) ==
    IF req.hpm = "200"
    THEN [who |-> "hpm", status |-> "200",
          asked |-> <<Asked("hpm", req.hpm)>>]
    ELSE IF req.hpm # "0"
    THEN [who |-> "none", status |-> req.hpm,
          asked |-> <<Asked("hpm", req.hpm)>>]
    ELSE IF req.fcgi = "200"
    THEN [who |-> "fcgi", status |-> "200",
          asked |-> <<Asked("hpm", req.hpm), Asked("fcgi", req.fcgi)>>]
    ELSE IF req.fcgi # "0"
    THEN [who |-> "none", status |-> req.fcgi,
          asked |-> <<Asked("hpm", req.hpm), Asked("fcgi", req.fcgi)>>]
    ELSE IF req.cache = "200"
    THEN [who |-> "cache", status |-> "200",
          asked |-> <<Asked("hpm", req.hpm), Asked("fcgi", req.fcgi),
                      Asked("cache", req.cache)>>]
    ELSE [who |-> "none",
          status |-> IF req.cache # "0" THEN req.cache ELSE "404",
          asked |-> <<Asked("hpm", req.hpm), Asked("fcgi", req.fcgi),
                      Asked("cache", req.cache)>>]

\* htp_delegate_rpc, lines 787 and 812: total_length is the Content-Length
\* and bytes_rw what has arrived of the body together with the head, which
\* stays in stream_in; the unit is one RTS PDU. A Content-Length that the
\* body does not reach within the bounds (clen "big": clients announce
\* 1 GiB for an IN channel) is left as total_length 0 and is not counted
body_expected(r, req) ==
    IF r.sched_stat = "rdbody" /\ r.pchannel # "null" /\ req.clen = "exact"
    THEN [r EXCEPT !.total_length = BodyLen,
                   !.bytes_rw = req.early,
                   !.stream_in = [i \in 1 .. req.early |-> 1]]
    ELSE r

\* htparse_rdhead_rl, lines 546-549: the length of the URI of the request
\* line; st is "runoff" when the head is read on
rdhead_rl(r, req) ==
    IF uri_len(req.uri) = 0
    THEN [r |-> http_done(r, "400"), st |-> "loop"]
    ELSE IF uri_len(req.uri) >= uri_limit
    THEN [r |-> http_done(r, "414"), st |-> "loop"]
    ELSE [r |-> r, st |-> "runoff"]

\* htparse_rdhead_st from "met the end of request header" on
rdhead_end(r, req) ==
    LET a == htp_auth_1(r, req.login)
    IN IF a.st # "runoff" THEN a.r
       ELSE IF req.method \in RpcMethods
            THEN htp_delegate_rpc(a.r, req.method, req.uri, req.clen, req.alloc)
            ELSE LET t == take_request(req)
                     r2 == [a.r EXCEPT !.asked = t.asked]
                 IN IF t.who = "none" THEN http_done(r2, t.status)
                    ELSE htp_delegate_other(r2, t.who, req.how)

\* the URIs of tunnel requests: well-formed ones, and ones that break the
\* grammar in one place
RpcUris ==
    {OkUri, BadUri,
     Uri("/rpcwithcert/rpcproxy.dll?", 127, TRUE, "443"),
     Uri("/rpc/rpcproxy.dll?", 128, TRUE, "443"),
     Uri("/rpc/rpcproxy.dll?", 129, TRUE, "443"),
     Uri("/rpc/rpcproxy.dll?", 9, TRUE, "abc"),
     Uri("/rpc/rpcproxy.dll?", 9, TRUE, "0x1bb"),
     Uri("/rpc/rpcproxy.dll?", 9, FALSE, "")}

\* the URIs of other requests: short, and around uri_limit
GetUris ==
    {OkUri} \cup {Uri("/", n - 1, FALSE, "") :
                    n \in {uri_limit - 1, uri_limit, uri_limit + 1}}

\* what a handler answers to *_take_request: not mine, mine, an error code
Answers == {"0", "200", "403"}

\* the requests the clients send, and what the collaborators answer: the
\* tunnel requests of MS-RPCH, and a request for one of the other handlers
Requests ==
    [method : RpcMethods \cap env.max.methods, close : BOOLEAN,
     uri : RpcUris \cap env.max.uris, login : Logins \cap env.max.logins,
     clen : {"echo", "big"} \cap env.max.clens, alloc : BOOLEAN,
     early : {0},
     hpm : {"0"}, fcgi : {"0"}, cache : {"0"}, how : {"done"}]
    \cup
    [method : RpcMethods \cap env.max.methods, close : {FALSE},
     uri : RpcUris \cap env.max.uris, login : Logins \cap env.max.logins,
     clen : {"exact"} \cap env.max.clens, alloc : BOOLEAN,
     early : 0 .. (BodyLen + 1),
     hpm : {"0"}, fcgi : {"0"}, cache : {"0"}, how : {"done"}]
    \cup
    [method : {"GET"} \cap env.max.methods, close : {FALSE},
     uri : GetUris \cap env.max.uris,
     login : {"none"} \cap env.max.logins, clen : {"echo"},
     alloc : {TRUE}, early : {0},
     hpm : Answers, fcgi : Answers, cache : Answers,
     how : {"bad", "more", "fail", "nomem", "done"}]

\* how many collaborators fail while the head of req is handled
FaultsOf(req) ==
    (IF req.uri # OkUri THEN 1 ELSE 0)
    + (IF req.login \in {"denied", "nomaildir", "bad"} THEN 1 ELSE 0)
    + (IF req.alloc THEN 0 ELSE 1)
    + (IF req.method \notin RpcMethods
          /\ take_request(req).status \notin {"200", "404"} THEN 1 ELSE 0)
    + (IF req.how \in {"bad", "fail", "nomem"} THEN 1 ELSE 0)

\* the requests the bounded environment still sends: a tunnel request asks
\* for keep-alive, a handler is not asked how it fares unless it took the
\* request
Sendable(req) ==
    /\ env.n.faults + FaultsOf(req) <= env.max.n.faults
    /\ req.login \in env.max.logins
    /\ req.method \in env.max.methods
    /\ req.clen \in env.max.clens
    /\ req.clen # "echo" => ~req.close
    /\ req.clen # "exact" => req.early = 0
    /\ req.uri \in env.max.uris
    /\ req.alloc \/ (req.clen # "echo" /\ ~rpc_uri_400(req.uri))
    /\ take_request(req).who = "none" => req.how = "done"

\* htparse_rdhead
RdHead(c) ==
    /\ Dispatch(c, "rdhead")
    /\ \/ \* no stream block (5032), a malformed head (400, 414), timeout
          \* (408), or the client is gone
          /\ MayFail
          /\ Spend("faults")
          /\ \E how \in {"5032", "400", "414", "408", "lost"} :
                Return(c, IF how = "lost" THEN [r |-> ctx[c], st |-> "runoff"]
                          ELSE [r |-> http_done(ctx[c], how), st |-> "loop"])
          /\ UNCHANGED chan
       \/ \* lines 1025-1029: nothing to read for g_timeout
          /\ TimedOut(c, g_timeout)
          /\ Return(c, [r |-> http_done(ctx[c], "408"), st |-> "loop"])
          /\ UNCHANGED <<chan, env>>
       \/ \* a complete request head
          /\ May("requests")
          /\ \E req \in Requests :
                /\ Sendable(req)
                /\ env' = [env EXCEPT !.n.requests = @ + 1,
                                      !.n.faults = @ + FaultsOf(req)]
                /\ LET r0 == [Stamp(ctx[c]) EXCEPT !.method = req.method,
                                            !.uri = req.uri,
                                            !.b_close = req.close,
                                            !.attempt = req.login,
                                            !.asked = <<>>,
                                            !.blocked = FALSE]
                       rl == rdhead_rl(r0, req)
                       r1 == IF rl.st # "runoff" THEN rl.r
                             ELSE body_expected(rdhead_end(rl.r, req), req)
                   IN /\ Return(c, [r |-> r1, st |-> "loop"])
                      /\ chan' = [chan EXCEPT ![c] =
                                    IF r1.pchannel # ctx[c].pchannel
                                    THEN NewChannel ELSE @]
    /\ access' = NoAccess
    /\ UNCHANGED <<g_async_stop, crashed>>

\* ------------------------------------------------------------ write reply
\* the context is an OUT channel whose handshake is complete
OutOpened(c) ==
    /\ ctx[c].channel_type = "out"
    /\ ctx[c].pchannel = "out"
    /\ chan[c].channel_stat = "opened"

\* channel_type is OUT but no channel object is there: the test
\* pchannel->channel_stat dereferences a null pointer
OutNoChannel(c) == ctx[c].channel_type = "out" /\ ctx[c].pchannel = "null"

\* request.clear() and back to the head of the next request
next_request(r) ==
    [r EXCEPT !.method = "", !.uri = NoUri, !.stream_out = <<>>,
              !.sched_stat = "rdhead"]

\* a handler that keeps every connection after its reply
wrrep_drained_keep(r, stat) ==
    IF r.channel_type = "out" /\ stat \in {"waitinchannel", "waitrecycled"}
    THEN [r |-> [r EXCEPT !.sched_stat = "wait"], st |-> "cont"]
    ELSE IF r.in_charge # "none"
    THEN [r |-> r, st |-> "cont"]
    ELSE [r |-> next_request(r), st |-> "cont"]

\* htparse_wrrep, lines 1263-1281: the out-stream has been drained
wrrep_drained(r, stat) ==
    IF r.channel_type = "out" /\ stat \in {"waitinchannel", "waitrecycled"}
    THEN [r |-> [r EXCEPT !.sched_stat = "wait"], st |-> "cont"]
    ELSE IF r.in_charge # "none"
    THEN [r |-> r, st |-> "cont"]
    ELSE IF r.b_close
    THEN [r |-> r, st |-> "runoff"]
    ELSE [r |-> next_request(r), st |-> "cont"]

\* htparse_wrrep on a context that is not an opened OUT channel: one block
\* of stream_out goes to the socket
wrrep_stream(r, stat) ==
    IF r.stream_out = <<>>
    THEN \* write_buff is null, written_len is 0: "connection lost"
         [r |-> r, st |-> "runoff"]
    ELSE LET r1 == [r EXCEPT !.stream_out = Tail(@)]
         IN IF r1.stream_out # <<>>
            THEN [r |-> [r1 EXCEPT !.write_buff = StreamBuf], st |-> "cont"]
            ELSE wrrep_drained([r1 EXCEPT !.write_buff = NoBuf], stat)

\* htparse_wrrep_nobuf, lines 1034-1088: the handler in charge is asked;
\* st "write" stands for the way on to the write
wrrep_plugin(r, how) ==
    CASE how = "err" ->
            [r |-> http_done(r, IF r.in_charge = "fcgi" THEN "502" ELSE "400"),
             st |-> "loop"]
      [] how = "none" -> [r |-> r, st |-> "cont"]
      [] how = "wait" ->
            [r |-> [r EXCEPT !.sched_stat = "wait"], st |-> "idle"]
      [] how = "done" ->
            IF r.b_close THEN [r |-> r, st |-> "runoff"]
            ELSE \* the handler has given the context back: an HPM handler
                 \* through hpm_processor_put_context, mod_fastcgi and
                 \* mod_cache when they read the end of their response
                 [r |-> [next_request(r) EXCEPT !.in_charge = "none"],
                  st |-> "cont"]
      [] OTHER ->
            [r |-> [r EXCEPT !.stream_out =
                                IF @ = <<>> THEN <<"data">> ELSE @],
             st |-> "write"]

\* htparse_wrrep for everything but an opened OUT channel
WrRep(c) ==
    /\ Dispatch(c, "wrrep")
    /\ ~OutOpened(c)
    /\ IF OutNoChannel(c)
       THEN Crash
       ELSE /\ \/ /\ ctx[c].in_charge # "none"
                  /\ ctx[c].write_buff = NoBuf
                  /\ \E how \in {"err", "none", "wait", "done", "write"} :
                        /\ how = "wait" => ctx[c].in_charge = "hpm"
                        /\ how = "err" => MayFail
                        /\ env' = [env EXCEPT !.n.faults =
                                      @ + IF how = "err" THEN 1 ELSE 0]
                        /\ LET p == wrrep_plugin(ctx[c], how)
                           IN Return(c, IF p.st = "write"
                                        THEN wrrep_stream(p.r,
                                                chan[c].channel_stat)
                                        ELSE p)
               \/ \* the socket takes the block
                  /\ ctx[c].in_charge = "none" \/ ctx[c].write_buff # NoBuf
                  /\ Return(c, wrrep_stream(Stamp(ctx[c]),
                                            chan[c].channel_stat))
                  /\ UNCHANGED env
               \/ \* the write fails, or EAGAIN lasts beyond g_timeout
                  /\ MayFail
                  /\ Spend("faults")
                  /\ HttpEnd(c, ctx[c])
               \/ \* lines 1197-1201: the socket takes nothing for g_timeout
                  /\ ctx[c].in_charge = "none" \/ ctx[c].write_buff # NoBuf
                  /\ TimedOut(c, g_timeout)
                  /\ HttpEnd(c, ctx[c])
                  /\ UNCHANGED env
            /\ access' = NoAccess
            /\ UNCHANGED <<chan, g_async_stop, crashed>>

\* htparse_wrrep_nobuf on an opened OUT channel, lines 1092-1098
WrRepNobuf(c) ==
    /\ Dispatch(c, "wrrep")
    /\ OutOpened(c)
    /\ ctx[c].write_buff = NoBuf
    /\ Call(c, "nobuf", chan[c].connection_cookie, "idle", 0, "", NoBuf)
    /\ access' = NoAccess
    /\ UNCHANGED <<ctx, chan, g_async_stop, env, crashed>>

\* htparse_wrrep_nobuf, lines 1099-1111: the head of the queue is the next
\* thing to write
NobufBody(c) ==
    /\ AtBody(c, "nobuf")
    /\ g_vconnection_hash' = Locked(c)
    /\ IF ~frame[c].found
       THEN \* "virtual connection error in hash table"
            /\ AfterBody(c, "runoff", "")
            /\ access' = NoAccess
            /\ UNCHANGED ctx
       ELSE /\ access' = Touch(c, frame[c].k)
            /\ IF chan[c].pdu_list = <<>>
               THEN /\ AfterBody(c, "nobuf_wait", "")
                    /\ UNCHANGED ctx
               ELSE /\ AfterBody(c, "wr_write", "")
                    /\ ctx' = [ctx EXCEPT
                                 ![c].write_buff = Head(chan[c].pdu_list),
                                 ![c].write_offset = 0]
    /\ UNCHANGED <<chan, g_async_stop, env, crashed>>

\* htparse_wrrep_nobuf, lines 1107-1108, after pvconnection.put()
NobufWait(c) ==
    /\ ~crashed
    /\ pc[c] = "nobuf_wait"
    /\ ctx' = [ctx EXCEPT ![c].sched_stat = "wait"]
    /\ Leave(c, "idle")
    /\ access' = NoAccess
    /\ UNCHANGED <<chan, g_async_stop, env, crashed>>

\* a handler ended with runoff after an operation on the VC: http_end
RunOff(c) ==
    /\ ~crashed
    /\ pc[c] = "runoff"
    /\ HttpEnd(c, ctx[c])
    /\ access' = NoAccess
    /\ UNCHANGED <<chan, g_async_stop, env, crashed>>

\* htparse_wrrep, lines 1132-1143: the bytes an opened OUT channel offers
\* to the socket, what is left of the PDU or what the window allows
written_len(r, ch) ==
    IF blob_cb(r.write_buff) - r.write_offset > ch.available_window
    THEN ch.available_window
    ELSE blob_cb(r.write_buff) - r.write_offset

\* htparse_wrrep on an opened OUT channel, lines 1132-1205: a part of the
\* PDU that write_buff points to goes to the socket
WrWrite(c) ==
    /\ \/ ~crashed /\ pc[c] = "wr_write"
       \/ Dispatch(c, "wrrep") /\ OutOpened(c) /\ ctx[c].write_buff # NoBuf
    /\ IF chan[c].available_window < MinWindow
       THEN \* no write while the window is closed
            /\ Leave(c, "idle")
            /\ UNCHANGED <<ctx, chan, env>>
       ELSE \/ \E n \in 1 .. written_len(ctx[c], chan[c]) :
                  \* the socket takes n bytes
                  /\ env.max.partial \/ n = written_len(ctx[c], chan[c])
                  /\ chan' = [chan EXCEPT ![c].sent =
                                IF ctx[c].write_offset = 0
                                THEN Append(@, ctx[c].write_buff) ELSE @]
                  /\ ctx' = [ctx EXCEPT ![c].write_offset = @ + n,
                                        ![c].bytes_rw = @ + n,
                                        ![c].elapsed = 0]
                  /\ Call(c, "debit", chan[c].connection_cookie, "wr_full",
                          n, "", NoBuf)
                  /\ UNCHANGED env
            \/ \* the write fails, or EAGAIN lasts beyond g_timeout
               /\ MayFail
               /\ Spend("faults")
               /\ HttpEnd(c, ctx[c])
               /\ UNCHANGED chan
            \/ \* lines 1197-1201: the socket takes nothing for g_timeout
               /\ TimedOut(c, g_timeout)
               /\ HttpEnd(c, ctx[c])
               /\ UNCHANGED <<chan, env>>
    /\ access' = NoAccess
    /\ UNCHANGED <<g_async_stop, crashed>>

\* a debit that counts the RTS PDUs too
debit_all(ch, head, n) ==
    [ch EXCEPT !.available_window = Word(@ - n), !.bytes_sent = Word(@ + n)]

\* htparse_wrrep, lines 1212-1215: n bytes were written and head is the head
\* of the queue
debit(ch, head, n) ==
    IF b_rts(head) THEN ch
    ELSE [ch EXCEPT !.available_window = Word(@ - n),
                    !.bytes_sent = Word(@ + n)]

\* htparse_wrrep, lines 1206-1216: the head of the queue tells whether the
\* bytes count against the window; the lookup is not tested for success
DebitBody(c) ==
    /\ AtBody(c, "debit")
    /\ IF chan[c].pdu_list = <<>>
       THEN Crash
       ELSE /\ g_vconnection_hash' = Locked(c)
            /\ access' = IF frame[c].found \/ Bound(c)
                         THEN Touch(c, chan[c].connection_cookie) ELSE NoAccess
            /\ chan' = [chan EXCEPT ![c] =
                          debit(@, Head(@.pdu_list), frame[c].arg)]
            /\ AfterBody(c, "wr_full", "")
            /\ UNCHANGED <<ctx, g_async_stop, env, crashed>>

\* htparse_wrrep, lines 1218-1229: more of the PDU is left to write, or the
\* PDU is written in full
WrFull(c) ==
    /\ ~crashed
    /\ pc[c] = "wr_full"
    /\ IF ctx[c].write_offset < blob_cb(ctx[c].write_buff)
       THEN /\ Leave(c, "idle")
            /\ UNCHANGED ctx
       ELSE /\ ctx' = [ctx EXCEPT ![c].write_buff = NoBuf,
                                  ![c].write_offset = 0]
            /\ Call(c, "pop", chan[c].connection_cookie, "idle", 0, "", NoBuf)
    /\ access' = NoAccess
    /\ UNCHANGED <<chan, g_async_stop, env, crashed>>

\* htparse_wrrep, lines 1244-1245: at most MAX_RECLYING_REMAINING of the
\* advertised length is left; the difference of the two uint64_t is far
\* above that once bytes_rw has passed total_length
near_end(r) ==
    /\ r.total_length > 0
    /\ r.bytes_rw <= r.total_length
    /\ r.total_length - r.bytes_rw <= MAX_RECLYING_REMAINING

\* htparse_wrrep, lines 1230-1255: the written PDU leaves the queue
PopBody(c) ==
    /\ AtBody(c, "pop")
    /\ g_vconnection_hash' = Locked(c)
    /\ IF ~frame[c].found
       THEN /\ AfterBody(c, "runoff", "")
            /\ access' = NoAccess
            /\ UNCHANGED <<ctx, chan, env>>
       ELSE /\ access' = Touch(c, frame[c].k)
            /\ AfterBody(c, "idle", "")
            /\ LET rest == IF chan[c].pdu_list = <<>> THEN <<>>
                           ELSE Tail(chan[c].pdu_list)
               IN IF rest # <<>>
                  THEN /\ chan' = [chan EXCEPT ![c].pdu_list = rest]
                       /\ ctx' = [ctx EXCEPT ![c].write_buff = Head(rest)]
                       /\ UNCHANGED env
                  ELSE IF near_end(ctx[c]) /\ ~chan[c].b_obsolete
                  THEN \/ \* pdu_processor_rts_outr2_a2 builds the PDU
                          /\ chan' = [chan EXCEPT ![c] =
                                output_pdu([@ EXCEPT !.pdu_list = rest,
                                                     !.b_obsolete = TRUE],
                                           Pdu("outr2_a2", 0))]
                          /\ UNCHANGED <<ctx, env>>
                       \/ \* or fails to
                          /\ MayFail
                          /\ Spend("faults")
                          /\ chan' = [chan EXCEPT ![c].pdu_list = rest]
                          /\ UNCHANGED ctx
                  ELSE \* far from the end of the response, or obsolete
                       /\ chan' = [chan EXCEPT ![c].pdu_list = rest]
                       /\ ctx' = [ctx EXCEPT ![c].sched_stat = "wait"]
                       /\ UNCHANGED env
    /\ UNCHANGED <<g_async_stop, crashed>>

\* ------------------------------------------------------------- http_end
\* http_end, lines 452-456 and 462-466: the context leaves its slot
end_unbind(v, c, ty) ==
    IF ty = "in"
    THEN [v EXCEPT !.pcontext_in = IF @ = c THEN NULL ELSE @]
    ELSE [v EXCEPT !.pcontext_out = IF @ = c THEN NULL ELSE @]

EndBody(c) ==
    /\ AtBody(c, "end")
    /\ IF frame[c].found
       THEN /\ g_vconnection_hash' =
                  [Locked(c) EXCEPT ![frame[c].k] =
                      end_unbind(@, c, ctx[c].channel_type)]
            /\ access' = Touch(c, frame[c].k)
       ELSE /\ UNCHANGED g_vconnection_hash
            /\ access' = NoAccess
    /\ AfterBody(c, "end_free", "")
    /\ UNCHANGED <<ctx, chan, g_async_stop, env, crashed>>

\* http_end, lines 457-474: the channel goes back to its allocator (its
\* destructor frees the queue) and the context is cleared
EndFree(c) ==
    /\ ~crashed
    /\ pc[c] = "end_free"
    /\ chan' = [chan EXCEPT ![c] = NewChannel]
    /\ ctx' = [ctx EXCEPT ![c] = ClearContext]
    /\ Leave(c, "idle")
    /\ access' = NoAccess
    /\ UNCHANGED <<g_async_stop, env, crashed>>

\* ----------------------------------------------- try_create_vconnection
\* a try_create_vconnection that wakes the peer in both directions
tc_signal_both(v, ty) ==
    IF ty = "out" THEN v.pcontext_in ELSE v.pcontext_out

\* lines 1924-1930: the context that try_create_vconnection wakes
\* (contexts_pool_signal) when a context of type ty takes its slot of the
\* existing VC v; frame[c].signal records it until VCONN_REF::put
tc_signal(v, ty) ==
    IF ty = "out" THEN NULL ELSE v.pcontext_out

\* try_create_vconnection, lines 1923-1932 and 1963-1966: the context takes
\* the slot of its kind
tc_bind(v, c, ty) ==
    IF ty = "out" THEN [v EXCEPT !.pcontext_out = c]
    ELSE [v EXCEPT !.pcontext_in = c]

\* what the RTS parser does once try_create_vconnection has answered:
\* CONN/A1 on an OUT channel is answered with CONN/A3 (OUTPUT), CONN/B1 on an
\* IN channel opens the channel (INPUT)
created(ch, ty, ok) ==
    IF ~ok THEN [ch |-> ch, result |-> "ERROR"]
    ELSE IF ty = "out" THEN [ch |-> ch, result |-> "OUTPUT"]
    ELSE [ch |-> [ch EXCEPT !.channel_stat = "opened"], result |-> "INPUT"]

\* try_create_vconnection, lines 1921-1932: the VC exists
CreateBody(c) ==
    /\ AtBody(c, "create")
    /\ IF frame[c].found
       THEN /\ g_vconnection_hash' =
                  [Locked(c) EXCEPT ![frame[c].k] =
                      tc_bind(@, c, ctx[c].channel_type)]
            /\ access' = Touch(c, frame[c].k)
            /\ chan' = [chan EXCEPT ![c] =
                          created(@, ctx[c].channel_type, TRUE).ch]
            /\ pc' = [pc EXCEPT ![c] = "put"]
            /\ frame' = [frame EXCEPT
                  ![c].ret = "consume",
                  ![c].res = created(chan[c], ctx[c].channel_type, TRUE).result,
                  ![c].signal = tc_signal(g_vconnection_hash[frame[c].k],
                                          ctx[c].channel_type)]
            /\ g_vconnection_lock' = Free
       ELSE /\ pc' = [pc EXCEPT ![c] = "tc_create"]
            /\ g_vconnection_lock' = Free
            /\ access' = NoAccess
            /\ UNCHANGED <<g_vconnection_hash, chan, frame>>
    /\ UNCHANGED <<ctx, g_async_stop, env, crashed>>

\* try_create_vconnection, lines 1934-1968: the critical section of
\* g_vconnection_lock that inserts the VC
TcCreate(c) ==
    /\ ~crashed
    /\ pc[c] = "tc_create"
    /\ LET k == frame[c].k
           ty == ctx[c].channel_type
           done(ok) ==
               /\ chan' = [chan EXCEPT ![c] = created(@, ty, ok).ch]
               /\ pc' = [pc EXCEPT ![c] = "consume"]
               /\ frame' = [frame EXCEPT
                              ![c].res = created(chan[c], ty, ok).result]
               /\ g_vconnection_lock' = Taken(g_vconnection_hash, c)
       IN IF hash_full(g_vconnection_hash)
          THEN \* "vconn hash full"
               /\ done(FALSE)
               /\ access' = NoAccess
               /\ UNCHANGED <<g_vconnection_hash, env>>
          ELSE IF hash_find(g_vconnection_hash, k)
          THEN \* "vconn suddenly started existing": goto RETRY_QUERY
               /\ Call(c, "create", k, "consume", 0, "", NoBuf)
               /\ access' = NoAccess
               /\ UNCHANGED <<chan, env>>
          ELSE \/ \* bad_alloc, or pdu_processor_create failed
                  /\ MayFail
                  /\ Spend("faults")
                  /\ done(FALSE)
                  /\ access' = NoAccess
                  /\ UNCHANGED g_vconnection_hash
               \/ /\ g_vconnection_hash' =
                        [g_vconnection_hash EXCEPT ![k] =
                            tc_bind([NewVconn EXCEPT !.pprocessor = TRUE],
                                    c, ty)]
                  /\ access' = Unguarded(c, k, TRUE)
                  /\ done(TRUE)
                  /\ UNCHANGED env
    /\ UNCHANGED <<ctx, g_async_stop, crashed>>

\* ---------------------------------------------------------- request body
\* htparse_rdbody_nochan: a body without a channel (ECHO, or a handler's)
rdbody_nochan(r, how) ==
    CASE how = "lost" -> [r |-> r, st |-> "runoff"]
      [] how = "eof" ->
            \* lines 1294-1296 and 1362-1366: htparse_rdbody_nochan2 hands
            \* back runoff for a lost connection as it does for a complete
            \* body, and htparse_rdbody_nochan goes on
            IF r.method \notin RpcMethods
            THEN [r |-> http_done(r, "405"), st |-> "loop"]
            ELSE [r |-> [r EXCEPT !.stream_out = Append(@, "echo"),
                                  !.sched_stat = "wrrep"],
                  st |-> "cont"]
      [] how = "more" -> [r |-> r, st |-> "cont"]
      [] how = "timeout" -> [r |-> http_done(r, "408"), st |-> "loop"]
      [] how = "nomem" -> [r |-> http_done(r, "5032"), st |-> "loop"]
      [] how = "fail" ->
            [r |-> http_done(r, IF r.in_charge = "fcgi" THEN "502" ELSE "400"),
             st |-> "loop"]
      [] OTHER ->
            IF r.in_charge # "none"
            THEN [r |-> [r EXCEPT !.sched_stat = "wrrep",
                                  !.write_buff =
                                     IF r.in_charge = "hpm" /\ r.stream_out # <<>>
                                     THEN StreamBuf ELSE @],
                  st |-> "cont"]
            ELSE IF r.method \notin RpcMethods
            THEN [r |-> http_done(r, "405"), st |-> "loop"]
            ELSE \* ECHO request
                 [r |-> [r EXCEPT !.stream_out = Append(@, "echo"),
                                  !.sched_stat = "wrrep"],
                  st |-> "cont"]

RdBodyNoChan(c) ==
    /\ Dispatch(c, "rdbody")
    /\ \/ ctx[c].pchannel = "null"
       \/ ctx[c].channel_type \notin {"in", "out"}
    /\ \/ /\ Return(c, rdbody_nochan(ctx[c], "done"))
          /\ UNCHANGED env
       \/ /\ MayFail
          /\ Spend("faults")
          /\ \E how \in {"eof", "timeout", "nomem", "fail"} :
                /\ how = "fail" => ctx[c].in_charge # "none"
                /\ Return(c, rdbody_nochan(ctx[c], how))
    /\ access' = NoAccess
    /\ UNCHANGED <<chan, g_async_stop, crashed>>

\* the RTS PDUs a client sends on a channel of kind ty; cc is the connection
\* cookie, ch the channel cookie of the sending channel, arg the cookie of
\* the predecessor (recycle) or of the successor (activate), and for
\* CONN/A1 the receive window of the client.  A first channel comes with
\* the first channel cookie, a successor with the last.
\* the connection cookies a client may put into its next PDU of this kind:
\* any it knows, or, when every connection comes with a cookie of its own,
\* the next unused one
ClientCookies(kind) ==
    IF env.max.fresh
    THEN {k \in env.max.cookies : k = env.n[kind] + 1}
    ELSE env.max.cookies

RtsPdus(ty) ==
    IF ty = "out"
    THEN [kind : {"conn_a1"}, cc : ClientCookies("conn_a1"), ch : {1},
          arg : env.max.windows]
         \cup [kind : {"outr2_a3"}, cc : env.max.cookies, ch : {2},
               arg : ChannelCookies]
         \cup [kind : {"outr2_c1"}, cc : {0}, ch : {0}, arg : {0}]
    ELSE [kind : {"conn_b1"}, cc : ClientCookies("conn_b1"), ch : {1},
          arg : env.max.keeps]
         \cup [kind : {"inr2_a1"}, cc : env.max.cookies, ch : {2},
               arg : ChannelCookies]
         \cup [kind : {"inr2_a5", "outr2_a7"}, cc : {0}, ch : {0},
               arg : ChannelCookies]
         \cup [kind : {"keepalive"}, cc : {0}, ch : {0},
               arg : env.max.keeps]
         \cup [kind : {"flowcontrolack", "ping", "bad"},
               cc : {0}, ch : {0}, arg : {0}]

\* a client that follows MS-RPCH sends a PDU of kind kind on a channel in
\* state stat: a channel opens with CONN/A1, CONN/B1, IN_R2/A1 or OUT_R2/A3,
\* OUT_R2/C1 follows OUT_R2/A3, everything else travels on an opened channel
InOrder(kind, stat) ==
    CASE kind \in {"conn_a1", "conn_b1", "inr2_a1", "outr2_a3"} ->
            stat = "openstart"
      [] kind = "outr2_c1" -> stat = "recycling"
      [] kind = "inr2_a5" -> stat = "openstart"
      [] OTHER -> stat = "opened"

\* the operation of http_parser.cpp the RTS parser calls for a PDU
rts_call(kind) ==
    CASE kind \in {"conn_a1", "conn_b1"} -> "create"
      [] kind = "inr2_a1" -> "recycle_in"
      [] kind = "outr2_a3" -> "recycle_out"
      [] kind = "inr2_a5" -> "activate_in"
      [] kind = "outr2_a7" -> "activate_out"
      [] kind = "flowcontrolack" -> "flowcontrol"
      [] kind = "keepalive" -> "keep_alive"
      [] OTHER -> ""

\* the RTS parser answers a PDU that needs no operation on the VC: a ping is
\* swallowed, OUT_R2/C1 on a RECYCLING channel opens the response
rts_plain(kind, stat) ==
    CASE kind = "ping" -> "INPUT"
      [] kind = "outr2_c1" /\ stat = "recycling" -> "OUTPUT"
      [] OTHER -> "ERROR"

\* the parser stores the cookies of a channel-opening PDU in the channel,
\* the receive window of CONN/A1 and the ClientKeepalive of CONN/B1
rts_cookies(ch, p) ==
    IF p.cc = 0 THEN ch
    ELSE IF p.kind = "conn_a1"
    THEN [ch EXCEPT !.connection_cookie = p.cc, !.channel_cookie = p.ch,
                    !.window_size = p.arg, !.available_window = p.arg]
    ELSE IF p.kind = "conn_b1"
    THEN [ch EXCEPT !.connection_cookie = p.cc, !.channel_cookie = p.ch,
                    !.client_keepalive = p.arg]
    ELSE [ch EXCEPT !.connection_cookie = p.cc, !.channel_cookie = p.ch]

\* line 55: the Content-Length an OUT channel advertises, in the unit of
\* length of the environment (the response head has length 0 in that unit)
OUT_CHANNEL_MAX_LENGTH == env.max.length

\* a handler that ignores no error of the RTS parser
demote_never(r, stat, result) == result

\* htparse_rdbody, lines 1472-1476: an error of the RTS parser is ignored on
\* an opened IN channel
demote(r, stat, result) ==
    IF r.channel_type = "in" /\ stat = "opened" /\ result = "ERROR"
    THEN "INPUT" ELSE result

\* a htparse_rdbody that opens an OUT channel with its first response,
\* without the wait for the IN channel
consume_opened(r, stat, result, nomem) ==
    IF nomem THEN [r |-> http_done(r, "5032"), stat |-> stat, st |-> "loop"]
    ELSE IF result = "INPUT" THEN [r |-> r, stat |-> stat, st |-> "cont"]
    ELSE IF result = "OUTPUT" /\ stat \in {"openstart", "recycling"}
    THEN [r |-> [r EXCEPT !.stream_out = @ \o <<"200", "pdu">>,
                          !.total_length = OUT_CHANNEL_MAX_LENGTH,
                          !.bytes_rw = 0,
                          !.sched_stat = "wrrep"],
          stat |-> "opened",
          st |-> "loop"]
    ELSE [r |-> r, stat |-> stat, st |-> "runoff"]

\* a handler that takes every OUT channel for a first one
consume_first(r, stat, result, nomem) ==
    IF nomem THEN [r |-> http_done(r, "5032"), stat |-> stat, st |-> "loop"]
    ELSE IF result = "INPUT" THEN [r |-> r, stat |-> stat, st |-> "cont"]
    ELSE IF result = "OUTPUT" /\ stat \in {"openstart", "recycling"}
    THEN [r |-> [r EXCEPT !.stream_out = @ \o <<"200", "pdu">>,
                          !.total_length = OUT_CHANNEL_MAX_LENGTH,
                          !.bytes_rw = 0,
                          !.sched_stat = "wrrep"],
          stat |-> "waitinchannel",
          st |-> "loop"]
    ELSE [r |-> r, stat |-> stat, st |-> "runoff"]

\* htparse_rdbody, lines 1518-1608 for every result but OUTPUT on an IN
\* channel: the fragment is consumed and the result decides
consume(r, stat, result, nomem) ==
    IF nomem THEN [r |-> http_done(r, "5032"), stat |-> stat, st |-> "loop"]
    ELSE IF result = "INPUT" THEN [r |-> r, stat |-> stat, st |-> "cont"]
    ELSE IF result = "OUTPUT" /\ stat \in {"openstart", "recycling"}
    THEN [r |-> [r EXCEPT !.stream_out = @ \o <<"200", "pdu">>,
                          !.total_length = OUT_CHANNEL_MAX_LENGTH,
                          !.bytes_rw = 0,
                          !.sched_stat = "wrrep"],
          stat |-> IF stat = "openstart" THEN "waitinchannel"
                   ELSE "waitrecycled",
          st |-> "loop"]
    ELSE [r |-> r, stat |-> stat, st |-> "runoff"]

\* htparse_rdbody from line 1518 on, on context c with the result of the RTS
\* parser or of the processor; used is what the environment did before
Consume(c, r0, result, used) ==
    \E nomem \in BOOLEAN :
       /\ nomem => MayFail
       /\ env' = [used EXCEPT !.n.faults = @ + IF nomem THEN 1 ELSE 0]
       /\ IF ~nomem /\ result = "OUTPUT" /\ ctx[c].channel_type = "in"
          THEN \* lines 1572-1573: find the corresponding out channel
               /\ Call(c, "output", chan[c].connection_cookie, "idle", 0, "",
                       frame[c].pdu)
               /\ ctx' = [ctx EXCEPT ![c] = r0]
               /\ UNCHANGED chan
          ELSE LET o == consume(r0, chan[c].channel_stat, result, nomem)
               IN /\ Return(c, [r |-> o.r, st |-> o.st])
                  /\ chan' = [chan EXCEPT
                                ![c].channel_stat = o.stat,
                                ![c].pcall = @ \/ (o.st = "loop" /\ ~nomem)]

\* lines 1425-1427: the bytes read bring bytes_rw above total_length
body_overflow(r, n) ==
    /\ r.stream_in = <<>>
    /\ r.total_length > 0
    /\ r.bytes_rw + n > r.total_length

\* a PDU of n units is at the head of stream_in, or the stream is empty
\* and the socket is read (lines 1409-1410)
Available(r, n) ==
    IF r.stream_in = <<>> THEN TRUE ELSE Head(r.stream_in) = n

\* the header at the head of stream_in says frag_length 0
ZeroAtHead(r) ==
    IF r.stream_in = <<>> THEN FALSE ELSE Head(r.stream_in) = 0

\* lines 1418-1432 and 1518: the context once a PDU of n units has been
\* read, if the stream did not hold it, and taken from the stream
take(r, n) ==
    IF r.stream_in # <<>> THEN [r EXCEPT !.stream_in = Tail(@)]
    ELSE [Stamp(r) EXCEPT !.bytes_rw = IF r.total_length > 0 THEN @ + n ELSE @]

\* the same for a PDU whose header says frag_length 0: fwd_read_ptr(0)
\* leaves it at the head of the stream
zero_frag(r) ==
    IF r.stream_in # <<>> THEN r
    ELSE [Stamp(r) EXCEPT !.bytes_rw = IF r.total_length > 0 THEN @ + 1 ELSE @,
                          !.stream_in = <<0>>]

\* htparse_rdbody on a context with a channel, up to the first operation on
\* the VC
RdBody(c) ==
    /\ Dispatch(c, "rdbody")
    /\ ctx[c].pchannel # "null"
    /\ ctx[c].channel_type \in {"in", "out"}
    /\ \/ \* no block, connection lost or body overflow, timeout
          /\ ctx[c].stream_in = <<>>
          /\ MayFail
          /\ Spend("faults")
          /\ \E how \in {"lost", "timeout", "nomem"} :
                Return(c, rdbody_nochan(ctx[c], how))
          /\ UNCHANGED chan
       \/ \* lines 1421-1424: the client drops the connection
          /\ ctx[c].stream_in = <<>>
          /\ May("drops")
          /\ Spend("drops")
          /\ Return(c, rdbody_nochan(ctx[c], "lost"))
          /\ UNCHANGED chan
       \/ \* lines 1437-1441: nothing to read for g_timeout
          /\ ctx[c].stream_in = <<>>
          /\ TimedOut(c, g_timeout)
          /\ Return(c, rdbody_nochan(ctx[c], "timeout"))
          /\ UNCHANGED <<chan, env>>
       \/ \* a complete RTS PDU
          /\ Available(ctx[c], 1)
          /\ \E p \in RtsPdus(ctx[c].channel_type) :
                /\ May(p.kind)
                /\ env.max.polite => InOrder(p.kind, chan[c].channel_stat)
                /\ IF body_overflow(ctx[c], 1)
                   THEN \* lines 1425-1430: content length overflow
                        /\ Return(c, rdbody_nochan(ctx[c], "lost"))
                        /\ Spend(p.kind)
                        /\ UNCHANGED chan
                   ELSE IF rts_call(p.kind) # ""
                   THEN /\ chan' = [chan EXCEPT ![c] = rts_cookies(@, p)]
                        /\ Call(c, rts_call(p.kind),
                                rts_cookies(chan[c], p).connection_cookie,
                                "consume", p.arg, "", NoBuf)
                        /\ Spend(p.kind)
                        /\ ctx' = [ctx EXCEPT ![c] = take(@, 1)]
                   ELSE Consume(c, take(ctx[c], 1),
                                demote(ctx[c], chan[c].channel_stat,
                                       rts_plain(p.kind, chan[c].channel_stat)),
                                [env EXCEPT !.n[p.kind] = @ + 1])
       \/ \* a complete RPC PDU: the RTS parser says FORWARD
          /\ ctx[c].stream_in = <<>>
          /\ May("pdus")
          /\ IF body_overflow(ctx[c], MaxPduLen)
             THEN /\ Return(c, rdbody_nochan(ctx[c], "lost"))
                  /\ Spend("pdus")
                  /\ UNCHANGED chan
             ELSE IF ctx[c].channel_type = "in"
                     /\ chan[c].channel_stat = "opened"
             THEN /\ Call(c, "forward", chan[c].connection_cookie, "processed",
                          env.n.pdus + 1, "", NoBuf)
                  /\ Spend("pdus")
                  /\ ctx' = [ctx EXCEPT ![c] = take(@, MaxPduLen)]
                  /\ UNCHANGED chan
             ELSE Consume(c, take(ctx[c], MaxPduLen), "FORWARD",
                          [env EXCEPT !.n.pdus = @ + 1])
       \/ \* lines 1454-1476: the fragment length in the header of the PDU
          \* at the head of the stream is 0
          /\ IF ctx[c].stream_in = <<>> THEN May("zeros")
             ELSE ZeroAtHead(ctx[c])
          /\ LET r == ctx[c]
                 used == IF r.stream_in = <<>>
                         THEN [env EXCEPT !.n.zeros = @ + 1] ELSE env
             IN IF r.stream_in = <<>> /\ body_overflow(r, 1)
                THEN /\ Return(c, rdbody_nochan(r, "lost"))
                     /\ env' = used
                     /\ UNCHANGED chan
                ELSE Consume(c, zero_frag(r),
                             demote(r, chan[c].channel_stat,
                                    rts_plain("zero", chan[c].channel_stat)),
                             used)
    /\ access' = NoAccess
    /\ UNCHANGED <<g_async_stop, crashed>>

\* htparse_rdbody from line 1518 on, after the operation on the VC
RdConsume(c) ==
    /\ ~crashed
    /\ pc[c] \in {"consume", "processed"}
    /\ Consume(c, Stamp(ctx[c]),
               IF pc[c] = "processed"
               THEN \* the result of pdu_processor_input (line 1492)
                    frame[c].res
               ELSE demote(ctx[c], chan[c].channel_stat, frame[c].res),
               env)
    /\ access' = NoAccess
    /\ UNCHANGED <<g_async_stop, crashed>>

\* htparse_rdbody, lines 1496-1497: a fragment of len bytes is counted
credit(ch, len) ==
    [ch EXCEPT !.available_window = Word(@ - len),
               !.bytes_received = Word(@ + len)]

\* a test that asks for an ack when half the window is left
below_half_or_at(ch, och) == ch.available_window <= och.window_size \div 2

\* htparse_rdbody, line 1500: less than half the window of the OUT channel
\* is left
below_half(ch, och) == ch.available_window < och.window_size \div 2

\* htparse_rdbody, line 1502: the window is open again
refill(ch, och) == [ch EXCEPT !.available_window = och.window_size]

\* a test that lets any context with a VC through
may_process_any(v, c) == TRUE

\* htparse_rdbody, lines 1486-1487: the context is the IN context of its
\* VC and the VC has its processor
may_process(v, c) == v.pcontext_in = c /\ v.pprocessor

\* htparse_rdbody, lines 1480-1515: the fragment goes to the processor
ForwardBody(c) ==
    /\ AtBody(c, "forward")
    /\ LET k == frame[c].k
           v == g_vconnection_hash[k]
       IN IF ~frame[c].found
          THEN /\ AfterBody(c, "runoff", "")
               /\ access' = NoAccess
               /\ UNCHANGED <<g_vconnection_hash, ctx, chan, env, crashed>>
          ELSE IF ~may_process(v, c)
          THEN /\ g_vconnection_hash' = Locked(c)
               /\ AfterBody(c, "runoff", "")
               /\ access' = Touch(c, k)
               /\ UNCHANGED <<ctx, chan, env, crashed>>
          ELSE \E result \in env.max.results, call \in BOOLEAN,
                  len \in env.max.frags :
                  \* the processor hands back a call with every fragment
                  \* it takes
                  /\ result \in {"INPUT", "OUTPUT"} => call
                  /\ IF call /\ BadChannel(v.pcontext_out, "out")
                     THEN Crash
                     ELSE LET o == v.pcontext_out
                              mine == credit(chan[c], len)
                              low == /\ call
                                     /\ o # NULL
                                     /\ below_half(mine, chan[o])
                              ack == Ack(mine.bytes_received,
                                         chan[o].window_size,
                                         mine.channel_cookie)
                          IN /\ g_vconnection_hash' = Locked(c)
                             /\ access' = Touch(c, k)
                             /\ UNCHANGED <<crashed, env>>
                             /\ pc' = [pc EXCEPT ![c] = "put"]
                             /\ frame' = [frame EXCEPT
                                   ![c].ret = "processed",
                                   ![c].res = result,
                                   ![c].pdu = IF result = "OUTPUT"
                                              THEN Pdu("rsp", frame[c].arg)
                                              ELSE NoBuf,
                                   ![c].ack = IF low /\ result # "INPUT"
                                              THEN ack ELSE NoBuf]
                             /\ g_vconnection_lock' = Free
                             /\ IF low
                                THEN IF result = "INPUT"
                                     THEN \* lines 1509-1513: the ack of a
                                          \* fragment goes out at once
                                          /\ chan' =
                                              [chan EXCEPT
                                                ![c] = refill(mine, chan[o]),
                                                ![o] = output_pdu(@, ack)]
                                          /\ ctx' = [ctx EXCEPT
                                                ![o].sched_stat = "wrrep"]
                                     ELSE /\ chan' =
                                              [chan EXCEPT
                                                ![c] = refill(mine, chan[o])]
                                          /\ UNCHANGED ctx
                                ELSE /\ chan' = [chan EXCEPT ![c] = mine]
                                     /\ UNCHANGED ctx
    /\ UNCHANGED g_async_stop

\* pdu_processor_output_pdu(pcall, &list) for the call of a request: its
\* response joins the list, and the flow control ack built on the call
output_call(ch, f) ==
    IF f.ack = NoBuf THEN output_pdu(ch, f.pdu)
    ELSE output_pdu(output_pdu(ch, f.pdu), f.ack)

\* a test that parks no response
parked_never(och) == FALSE

\* htparse_rdbody, lines 1591-1592: the OUT channel is being replaced, the
\* response waits on the IN channel for the successor
parked(och) == och.b_obsolete

\* htparse_rdbody, lines 1572-1603: the response of an IN channel goes to
\* the queue of the OUT channel, or is parked on the IN channel
OutputBody(c) ==
    /\ AtBody(c, "output")
    /\ LET k == frame[c].k
           v == g_vconnection_hash[k]
       IN IF ~frame[c].found
          THEN /\ AfterBody(c, "runoff", "")
               /\ access' = NoAccess
               /\ UNCHANGED <<g_vconnection_hash, ctx, chan, crashed>>
          ELSE IF (c # v.pcontext_in /\ c # v.pcontext_insucc)
                  \/ v.pcontext_out = NULL
          THEN /\ g_vconnection_hash' = Locked(c)
               /\ AfterBody(c, "runoff", "")
               /\ access' = Touch(c, k)
               /\ UNCHANGED <<ctx, chan, crashed>>
          ELSE IF BadChannel(v.pcontext_out, "out")
          THEN Crash
          ELSE /\ g_vconnection_hash' = Locked(c)
               /\ AfterBody(c, "idle", "")
               /\ access' = Touch(c, k)
               /\ UNCHANGED crashed
               /\ IF parked(chan[v.pcontext_out])
                  THEN /\ chan' = [chan EXCEPT ![c] =
                                     output_call(@, frame[c])]
                       /\ UNCHANGED ctx
                  ELSE /\ chan' = [chan EXCEPT ![v.pcontext_out] =
                                     output_call(@, frame[c])]
                       /\ ctx' = [ctx EXCEPT
                                    ![v.pcontext_out].sched_stat = "wrrep"]
    /\ UNCHANGED <<g_async_stop, env>>

\* ----------------------------------------------------- channel recycling
\* an operation the RTS parser called has answered ok; the parser's result
rts_result(ok) == IF ok THEN "INPUT" ELSE "ERROR"

\* a successor that starts with the fields it was created with
inherit_in_nothing(hch, ich) == hch

\* recycle_inchannel, lines 2008-2010: the successor takes over the
\* keep-alive time, the window and the count of its predecessor
inherit_in(hch, ich) ==
    [hch EXCEPT !.client_keepalive = ich.client_keepalive,
                !.available_window = ich.available_window,
                !.bytes_received = ich.bytes_received]

\* recycle_outchannel, lines 2037-2039: the successor starts with the
\* keep-alive time and the window size of its predecessor
inherit_out(hch, och) ==
    [hch EXCEPT !.client_keepalive = och.client_keepalive,
                !.available_window = och.window_size,
                !.window_size = och.window_size]

\* recycle_inchannel, lines 2000-2013
RecycleInBody(c) ==
    /\ AtBody(c, "recycle_in")
    /\ LET k == frame[c].k
           v == g_vconnection_hash[k]
       IN IF ~frame[c].found
          THEN /\ AfterBody(c, "consume", rts_result(FALSE))
               /\ access' = NoAccess
               /\ UNCHANGED <<g_vconnection_hash, chan, crashed>>
          ELSE IF BadChannel(v.pcontext_in, "in")
          THEN Crash
          ELSE LET ok == /\ v.pcontext_in # NULL
                         /\ frame[c].arg = chan[v.pcontext_in].channel_cookie
               IN /\ g_vconnection_hash' =
                        [Locked(c) EXCEPT ![k].pcontext_insucc =
                                             IF ok THEN c ELSE @]
                  /\ chan' = [chan EXCEPT ![c] =
                                IF ok THEN inherit_in(@, chan[v.pcontext_in])
                                ELSE @]
                  /\ AfterBody(c, "consume", rts_result(ok))
                  /\ access' = Touch(c, k)
                  /\ UNCHANGED crashed
    /\ UNCHANGED <<ctx, g_async_stop, env>>

\* recycle_outchannel, lines 2022-2041; the RTS parser then marks the new
\* channel as RECYCLING
RecycleOutBody(c) ==
    /\ AtBody(c, "recycle_out")
    /\ LET k == frame[c].k
           v == g_vconnection_hash[k]
           o == v.pcontext_out
       IN IF ~frame[c].found
          THEN /\ AfterBody(c, "consume", rts_result(FALSE))
               /\ access' = NoAccess
               /\ UNCHANGED <<g_vconnection_hash, ctx, chan, env, crashed>>
          ELSE IF BadChannel(o, "out")
          THEN Crash
          ELSE \E a6 \in BOOLEAN :
                  LET ok == /\ o # NULL
                            /\ frame[c].arg = chan[o].channel_cookie
                            /\ chan[o].b_obsolete
                            /\ a6
                  IN /\ ~a6 => /\ MayFail
                               /\ o # NULL
                               /\ frame[c].arg = chan[o].channel_cookie
                               /\ chan[o].b_obsolete
                     /\ env' = [env EXCEPT !.n.faults =
                                   @ + IF a6 THEN 0 ELSE 1]
                     /\ g_vconnection_hash' =
                           [Locked(c) EXCEPT ![k].pcontext_outsucc =
                                                IF ok THEN c ELSE @]
                     /\ AfterBody(c, "consume", rts_result(ok))
                     /\ access' = Touch(c, k)
                     /\ UNCHANGED crashed
                     /\ IF ok
                        THEN /\ chan' =
                                  [[chan EXCEPT ![o] =
                                       output_pdu(@, Pdu("outr2_a6", 0))]
                                   EXCEPT ![c] =
                                      [inherit_out(@, chan[o]) EXCEPT
                                          !.channel_stat = "recycling"]]
                             /\ ctx' = [ctx EXCEPT ![o].sched_stat = "wrrep"]
                        ELSE UNCHANGED <<ctx, chan>>
    /\ UNCHANGED g_async_stop

\* a test for success that does not compare the cookie
activate_in_ok_anycookie(v, c, cookie, own) == v.pcontext_insucc = c

\* activate_inrecycling, lines 2050-2063: the test for success
activate_in_ok(v, c, cookie, own) ==
    v.pcontext_insucc = c /\ cookie = own

\* activate_inrecycling
ActivateInBody(c) ==
    /\ AtBody(c, "activate_in")
    /\ LET k == frame[c].k
           v == g_vconnection_hash[k]
       IN IF ~frame[c].found
          THEN /\ AfterBody(c, "consume", rts_result(FALSE))
               /\ access' = NoAccess
               /\ UNCHANGED <<g_vconnection_hash, chan, crashed>>
          ELSE IF ~activate_in_ok(v, c, frame[c].arg, chan[c].channel_cookie)
          THEN /\ g_vconnection_hash' = Locked(c)
               /\ AfterBody(c, "consume", rts_result(FALSE))
               /\ access' = Touch(c, k)
               /\ UNCHANGED <<chan, crashed>>
          ELSE IF BadChannel(v.pcontext_in, "in")
          THEN Crash
          ELSE /\ g_vconnection_hash' =
                     [Locked(c) EXCEPT ![k].pcontext_in = c,
                                       ![k].pcontext_insucc = NULL]
               /\ chan' = [c2 \in Contexts |->
                             IF c2 = c
                             THEN [chan[c2] EXCEPT !.channel_stat = "opened"]
                             ELSE IF c2 = v.pcontext_in
                             THEN [chan[c2] EXCEPT !.channel_stat = "recycled"]
                             ELSE chan[c2]]
               /\ AfterBody(c, "consume", rts_result(TRUE))
               /\ access' = Touch(c, k)
               /\ UNCHANGED crashed
    /\ UNCHANGED <<ctx, g_async_stop, env>>

\* activate_outrecycling, lines 2072-2094
ActivateOutBody(c) ==
    /\ AtBody(c, "activate_out")
    /\ LET k == frame[c].k
           v == g_vconnection_hash[k]
           o == v.pcontext_out
           s == v.pcontext_outsucc
       IN IF ~frame[c].found
          THEN /\ AfterBody(c, "consume", rts_result(FALSE))
               /\ access' = NoAccess
               /\ UNCHANGED <<g_vconnection_hash, ctx, chan, env, crashed>>
          ELSE IF v.pcontext_in # c \/ o = NULL \/ s = NULL
          THEN /\ g_vconnection_hash' = Locked(c)
               /\ AfterBody(c, "consume", rts_result(FALSE))
               /\ access' = Touch(c, k)
               /\ UNCHANGED <<ctx, chan, env, crashed>>
          ELSE IF BadChannel(s, "out")
                  \/ (frame[c].arg = chan[s].channel_cookie
                      /\ BadChannel(o, "out"))
          THEN Crash
          ELSE \E b3 \in BOOLEAN :
                  LET match == frame[c].arg = chan[s].channel_cookie
                      ok == match /\ b3
                  IN \* pdu_processor_rts_outr2_b3 may fail
                     /\ ~b3 => MayFail /\ match
                     /\ env' = [env EXCEPT !.n.faults =
                                   @ + IF b3 THEN 0 ELSE 1]
                     /\ AfterBody(c, "consume", rts_result(ok))
                     /\ UNCHANGED crashed
                     /\ IF ok
                        THEN /\ g_vconnection_hash' =
                                  [Locked(c) EXCEPT
                                      ![k].pcontext_out = s,
                                      ![k].pcontext_outsucc = NULL]
                             /\ chan' = [chan EXCEPT ![o] =
                                           output_pdu(@, Pdu("outr2_b3", 0))]
                             /\ ctx' = [ctx EXCEPT ![o].sched_stat = "wrrep"]
                        ELSE /\ g_vconnection_hash' = Locked(c)
                             /\ UNCHANGED <<ctx, chan>>
                     /\ access' = Touch(c, k)
    /\ UNCHANGED g_async_stop

\* set_outchannel_flowcontrol, lines 1985-1991: the window the client has
\* left after the ack, in the arithmetic of uint32_t
flowcontrol(och, bytes_received, available_window) ==
    IF Word(bytes_received + available_window) > och.bytes_sent
    THEN [och EXCEPT !.available_window =
                        Word(bytes_received + available_window
                                - och.bytes_sent),
                     !.acked = bytes_received]
    ELSE [och EXCEPT !.available_window = 0, !.acked = bytes_received]

\* set_outchannel_flowcontrol, lines 1978-1991, and set_keep_alive, lines
\* 2101-2110: the OUT channel of the VC is written
PeerBody(c) ==
    /\ \/ AtBody(c, "flowcontrol")
       \/ AtBody(c, "keep_alive")
    /\ LET k == frame[c].k
           v == g_vconnection_hash[k]
           o == v.pcontext_out
       IN IF ~frame[c].found
          THEN /\ AfterBody(c, "consume", rts_result(TRUE))
               /\ access' = NoAccess
               /\ UNCHANGED <<g_vconnection_hash, chan, crashed>>
          ELSE IF (frame[c].op = "flowcontrol" \/ v.pcontext_in = c)
                  /\ BadChannel(o, "out")
          THEN Crash
          ELSE /\ g_vconnection_hash' = Locked(c)
               /\ AfterBody(c, "consume", rts_result(TRUE))
               /\ access' = Touch(c, k)
               /\ UNCHANGED crashed
               /\ IF frame[c].op = "flowcontrol" /\ o # NULL
                  THEN \E a \in env.max.acks :
                          chan' = [chan EXCEPT ![o] =
                                     flowcontrol(@, a.bytes_received,
                                                 a.available_window)]
                  ELSE IF frame[c].op = "keep_alive" /\ v.pcontext_in = c
                  THEN chan' = [c2 \in Contexts |->
                                  IF c2 = c \/ c2 = o
                                  THEN [chan[c2] EXCEPT !.client_keepalive =
                                          frame[c].arg]
                                  ELSE chan[c2]]
                  ELSE UNCHANGED chan
    /\ UNCHANGED <<ctx, g_async_stop, env>>

\* ------------------------------------------------------------------ wait
\* htparse_wait, lines 1705-1709: half of client_keepalive has passed since
\* the last transfer; where no clock runs, the time passed is left open
KeepaliveDue(c) ==
    env.max.clock => ctx[c].elapsed >= chan[c].client_keepalive \div 2

\* htparse_wait up to the first operation on the VC
Wait(c) ==
    /\ Dispatch(c, "wait")
    /\ IF ctx[c].in_charge = "hpm"
       THEN \* idle, until the handler has its response and wakes the context
            /\ ctx' = [ctx EXCEPT ![c].sched_stat = "wrrep"]
            /\ Leave(c, "idle")
            /\ access' = NoAccess
            /\ UNCHANGED <<env, crashed>>
       ELSE IF ctx[c].pchannel = "null"
       THEN Crash
       ELSE /\ UNCHANGED crashed
            /\ access' = NoAccess
            /\ CASE chan[c].channel_stat = "waitinchannel" ->
                       /\ Call(c, "waitin", chan[c].connection_cookie, "idle",
                               0, "", NoBuf)
                       /\ UNCHANGED <<ctx, env>>
                 [] chan[c].channel_stat = "waitrecycled" ->
                       /\ Call(c, "waitrec", chan[c].connection_cookie, "idle",
                               0, "", NoBuf)
                       /\ UNCHANGED <<ctx, env>>
                 [] chan[c].channel_stat = "recycled" ->
                       /\ HttpEnd(c, ctx[c])
                       /\ UNCHANGED env
                 [] OTHER ->
                       \/ \* recv(MSG_PEEK) returned 0: connection lost
                          /\ May("closes")
                          /\ Spend("closes")
                          /\ HttpEnd(c, ctx[c])
                       \/ \* less than half the keep-alive time has passed
                          /\ ~KeepaliveDue(c)
                          /\ Leave(c, "idle")
                          /\ UNCHANGED <<ctx, env>>
                       \/ \* pdu_processor_rts_ping failed
                          /\ KeepaliveDue(c)
                          /\ May("pings")
                          /\ MayFail
                          /\ Spend("faults")
                          /\ Leave(c, "idle")
                          /\ UNCHANGED ctx
                       \/ \* half the keep-alive time is over: ping the client
                          /\ KeepaliveDue(c)
                          /\ May("pings")
                          /\ Spend("pings")
                          /\ Call(c, "ping", chan[c].connection_cookie, "idle",
                                  0, "", NoBuf)
                          /\ UNCHANGED ctx
    /\ UNCHANGED <<chan, g_async_stop>>

\* after the lookup of htparse_waitinchannel / htparse_waitrecycled did not
\* find the pair: OUT_CHANNEL_MAX_WAIT is over (runoff) or not (idle)
\* a wait that never looks at the clock
WaitOn_forever(c) ==
    /\ AfterBody(c, "idle", "")
    /\ UNCHANGED env

WaitOn(c) ==
    \/ /\ ~TimedOut(c, OUT_CHANNEL_MAX_WAIT)
       /\ AfterBody(c, "idle", "")
       /\ UNCHANGED env
    \/ /\ MayFail
       /\ Spend("faults")
       /\ AfterBody(c, "runoff", "")
    \/ /\ TimedOut(c, OUT_CHANNEL_MAX_WAIT)
       /\ AfterBody(c, "runoff", "")
       /\ UNCHANGED env

\* an htparse_waitinchannel that leaves the window of the IN channel alone
paired_unset(ich, och) == ich

\* htparse_waitinchannel, lines 1620-1622: the IN channel starts with the
\* window of the OUT channel
paired(ich, och) ==
    [ich EXCEPT !.available_window = och.window_size, !.bytes_received = 0]

\* htparse_waitinchannel, lines 1614-1639
WaitInBody(c) ==
    /\ AtBody(c, "waitin")
    /\ LET k == frame[c].k
           v == g_vconnection_hash[k]
       IN IF ~frame[c].found
          THEN /\ WaitOn(c)
               /\ access' = NoAccess
               /\ UNCHANGED <<g_vconnection_hash, ctx, chan, crashed>>
          ELSE IF ~(v.pcontext_out = c /\ v.pcontext_in # NULL)
          THEN /\ g_vconnection_hash' = Locked(c)
               /\ WaitOn(c)
               /\ access' = Touch(c, k)
               /\ UNCHANGED <<ctx, chan, crashed>>
          ELSE IF BadChannel(v.pcontext_in, "in")
          THEN Crash
          ELSE /\ g_vconnection_hash' = Locked(c)
               /\ access' = Touch(c, k)
               /\ UNCHANGED crashed
               /\ \/ \* pdu_processor_rts_conn_c2 failed
                     /\ MayFail
                     /\ Spend("faults")
                     /\ AfterBody(c, "runoff", "")
                     /\ chan' = [chan EXCEPT
                                   ![c].client_keepalive =
                                      chan[v.pcontext_in].client_keepalive,
                                   ![v.pcontext_in] =
                                      paired(@, chan[c])]
                     /\ UNCHANGED ctx
                  \/ /\ chan' = [chan EXCEPT
                                   ![c] = output_pdu(
                                             [@ EXCEPT
                                                 !.channel_stat = "opened",
                                                 !.client_keepalive =
                                                    chan[v.pcontext_in]
                                                       .client_keepalive],
                                             Pdu("conn_c2", 0)),
                                   ![v.pcontext_in] =
                                      paired(@, chan[c])]
                     /\ ctx' = [ctx EXCEPT ![c].sched_stat = "wrrep"]
                     /\ AfterBody(c, "idle", "")
                     /\ UNCHANGED env
    /\ UNCHANGED g_async_stop

\* htparse_waitrecycled, lines 1663-1665: the nodes parked on the IN channel
\* move to the tail of the queue of the OUT channel
drain(from, to) ==
    [to EXCEPT !.pdu_list = @ \o from.pdu_list, !.enq = @ \o from.pdu_list]

\* htparse_waitrecycled, lines 1653-1671
WaitRecBody(c) ==
    /\ AtBody(c, "waitrec")
    /\ LET k == frame[c].k
           v == g_vconnection_hash[k]
           i == v.pcontext_in
       IN IF ~frame[c].found
          THEN /\ WaitOn(c)
               /\ access' = NoAccess
               /\ UNCHANGED <<g_vconnection_hash, ctx, chan, crashed>>
          ELSE IF ~(v.pcontext_out = c /\ i # NULL)
          THEN /\ g_vconnection_hash' = Locked(c)
               /\ WaitOn(c)
               /\ access' = Touch(c, k)
               /\ UNCHANGED <<ctx, chan, crashed>>
          ELSE IF BadChannel(i, "in")
          THEN Crash
          ELSE LET mine == drain(chan[i],
                                 [chan[c] EXCEPT
                                     !.channel_stat = "opened",
                                     !.client_keepalive =
                                        chan[i].client_keepalive])
               IN /\ g_vconnection_hash' = Locked(c)
                  /\ access' = Touch(c, k)
                  /\ UNCHANGED crashed
                  /\ chan' = [c2 \in Contexts |->
                                IF c2 = c THEN mine
                                ELSE IF c2 = i
                                THEN [chan[c2] EXCEPT !.pdu_list = <<>>]
                                ELSE chan[c2]]
                  /\ ctx' = [ctx EXCEPT ![c].sched_stat =
                               IF mine.pdu_list = <<>> THEN "wait"
                               ELSE "wrrep"]
                  /\ AfterBody(c, "idle", "")
                  /\ UNCHANGED env
    /\ UNCHANGED g_async_stop

\* htparse_wait, lines 1715-1720: the ping joins the queue; the lookup is
\* not tested for success
PingBody(c) ==
    /\ AtBody(c, "ping")
    /\ g_vconnection_hash' = Locked(c)
    /\ access' = IF frame[c].found \/ Bound(c)
                 THEN Touch(c, chan[c].connection_cookie) ELSE NoAccess
    /\ chan' = [chan EXCEPT ![c] = output_pdu(@, Pdu("ping", 0))]
    /\ ctx' = [ctx EXCEPT ![c].sched_stat = "wrrep"]
    /\ AfterBody(c, "idle", "")
    /\ UNCHANGED <<g_async_stop, env, crashed>>

\* ------------------------------------------------------- asynchronous reply
\* http_parser_shutdown_async
ShutdownAsync ==
    /\ ~crashed
    /\ ~g_async_stop
    /\ May("stops")
    /\ Spend("stops")
    /\ g_async_stop' = TRUE
    /\ access' = NoAccess
    /\ g_vconnection_lock' = Free
    /\ UNCHANGED <<ctx, chan, g_vconnection_hash, pc, frame, crashed>>

\* an async reply that does not look at the flag
async_stopped_never(stop) == FALSE

\* line 1751: the test of the flag at the start of an async reply
async_stopped(stop) == stop

\* http_parser_vconnection_async_reply, lines 1751-1755
AsyncReplyBy(a) ==
    /\ ~crashed
    /\ pc[a] = "idle"
    /\ May("asyncs")
    /\ Spend("asyncs")
    /\ IF async_stopped(g_async_stop)
       THEN \* "noticed async_stop"
            /\ frame' = [frame EXCEPT ![a] =
                           [NoFrame EXCEPT !.res = "noticed async_stop"]]
            /\ g_vconnection_lock' = Free
            /\ UNCHANGED <<pc, g_vconnection_hash>>
       ELSE \E k \in ClientCookies("asyncs") :
               Call(a, "async", k, "idle", 0, "", Pdu("async", 0))
    /\ access' = NoAccess
    /\ UNCHANGED <<ctx, chan, g_async_stop, crashed>>

\* http_parser_vconnection_async_reply, lines 1756-1771
AsyncBodyBy(a) ==
    /\ AtBody(a, "async")
    /\ LET k == frame[a].k
           v == g_vconnection_hash[k]
           o == v.pcontext_out
           i == v.pcontext_in
       IN IF ~frame[a].found
          THEN /\ AfterBody(a, "idle", "")
               /\ access' = NoAccess
               /\ UNCHANGED <<g_vconnection_hash, ctx, chan, crashed>>
          ELSE IF o = NULL
          THEN /\ g_vconnection_hash' = Locked(a)
               /\ AfterBody(a, "idle", "")
               /\ access' = Touch(a, k)
               /\ UNCHANGED <<ctx, chan, crashed>>
          ELSE IF BadChannel(o, "out")
                  \/ (chan[o].b_obsolete /\ BadChannel(i, "in"))
          THEN Crash
          ELSE /\ g_vconnection_hash' = Locked(a)
               /\ AfterBody(a, "idle", "")
               /\ access' = Touch(a, k)
               /\ UNCHANGED crashed
               /\ IF chan[o].b_obsolete
                  THEN IF i # NULL
                       THEN /\ chan' = [chan EXCEPT ![i] =
                                          output_pdu(@, frame[a].pdu)]
                            /\ UNCHANGED ctx
                       ELSE /\ ctx' = [ctx EXCEPT ![o].sched_stat = "wrrep"]
                            /\ UNCHANGED chan
                  ELSE /\ chan' = [chan EXCEPT ![o] =
                                     output_pdu(@, frame[a].pdu)]
                       /\ ctx' = [ctx EXCEPT ![o].sched_stat = "wrrep"]
    /\ UNCHANGED <<g_async_stop, env>>

\* the first producer thread alone
AsyncReply == AsyncReplyBy(Async)

AsyncBody == AsyncBodyBy(Async)

\* ----------------------------------------------------------------- time
\* tp_now() advances by a tick: every connection has been silent for a tick
\* longer (counted up to the longest timeout)
Tick ==
    /\ ~crashed
    /\ env.max.clock
    /\ ctx' = [c \in Contexts |->
                 IF ctx[c].sockd /\ ctx[c].elapsed < g_timeout
                 THEN [ctx[c] EXCEPT !.elapsed = @ + 1] ELSE ctx[c]]
    /\ access' = NoAccess
    /\ g_vconnection_lock' = Free
    /\ UNCHANGED <<chan, g_vconnection_hash, g_async_stop, pc, frame, env,
                   crashed>>

\* ------------------------------------------------------------ the system
\* how often the environment does a thing of kind e at most
Count(e) ==
    CASE e = "accepts" -> MaxAccept
      [] e = "requests" -> MaxRequests
      [] e = "pdus" -> MaxPdu
      [] e = "faults" -> MaxFault
      [] e = "closes" -> MaxClose
      [] e \in RtsKinds -> MaxRts
      [] OTHER -> MaxExtra

\* an environment that does the things of the kinds in some, and nothing else
Only(some) == [e \in EnvKinds |-> IF e \in some THEN Count(e) ELSE 0]

\* the environment of the whole system: every kind of input, each a bounded
\* number of times
FullEnv ==
    [tls |-> TRUE, polite |-> FALSE, cookies |-> {1}, logins |-> Logins,
     methods |-> RpcMethods \cup {"GET"}, clens |-> {"echo", "big"},
     results |-> ProcessorResults,
     windows |-> {6}, frags |-> {1}, partial |-> FALSE, acks |-> {},
     length |-> 16 * MAX_RECLYING_REMAINING,
     clock |-> FALSE,
     fresh |-> FALSE,
     uris |-> {OkUri, BadUri},
     keeps |-> {0},
     n |-> Only(EnvKinds)]

Init == Start(FullEnv)

Next ==
    \/ \E t \in Threads : Put(t)
    \/ \E c \in Contexts :
          \/ Accept(c) \/ InitSsl(c) \/ RdHead(c)
          \/ WrRep(c) \/ WrRepNobuf(c) \/ NobufBody(c) \/ NobufWait(c)
          \/ RunOff(c) \/ WrWrite(c) \/ DebitBody(c) \/ WrFull(c)
          \/ PopBody(c)
          \/ EndBody(c) \/ EndFree(c)
          \/ CreateBody(c) \/ TcCreate(c)
          \/ RdBodyNoChan(c) \/ RdBody(c) \/ RdConsume(c)
          \/ ForwardBody(c) \/ OutputBody(c)
          \/ RecycleInBody(c) \/ RecycleOutBody(c)
          \/ ActivateInBody(c) \/ ActivateOutBody(c) \/ PeerBody(c)
          \/ Wait(c) \/ WaitInBody(c) \/ WaitRecBody(c) \/ PingBody(c)
    \/ ShutdownAsync
    \/ AsyncReply
    \/ AsyncBody
    \/ Tick

Spec == Init /\ [][Next]_vars

\* ------------------------------------------------------------ request head
\* every kind of request head on keep-alive connections; the tunnel channels
\* are allocated but no PDU arrives on them
HeadEnv ==
    [tls |-> TRUE, polite |-> FALSE, cookies |-> {1}, logins |-> Logins,
     methods |-> RpcMethods \cup {"GET"}, clens |-> {"echo", "big"},
     results |-> ProcessorResults,
     windows |-> {6}, frags |-> {1}, partial |-> FALSE, acks |-> {},
     length |-> 16 * MAX_RECLYING_REMAINING,
     clock |-> FALSE,
     fresh |-> FALSE,
     uris |-> {OkUri, BadUri},
     keeps |-> {0},
     n |-> Only({"accepts", "requests", "faults"})]

InitHead == Start(HeadEnv)

\* the steps of Next this environment enables
NextHead ==
    \E c \in Contexts :
       \/ Accept(c) \/ InitSsl(c) \/ RdHead(c) \/ WrRep(c)
       \/ RdBodyNoChan(c) \/ RdBody(c) \/ Wait(c)
       \/ EndBody(c) \/ EndFree(c)

SpecHead == InitHead /\ [][NextHead]_vars

\* ---------------------------------------------------- virtual connections
\* clients that follow MS-RPCH open a VC, send a request on it and a
\* keep-alive PDU, and go away; a reply is produced asynchronously
VcEnv ==
    [tls |-> FALSE, polite |-> TRUE, cookies |-> 1 .. MaxVc,
     logins |-> {"good"},
     methods |-> RpcMethods, clens |-> {"big"},
     results |-> {"OUTPUT", "ERROR"},
     windows |-> {6}, frags |-> {1}, partial |-> FALSE, acks |-> {},
     length |-> 16 * MAX_RECLYING_REMAINING,
     clock |-> FALSE,
     fresh |-> FALSE,
     uris |-> {OkUri},
     keeps |-> {0},
     n |-> [Only({"accepts", "requests", "closes", "conn_a1", "conn_b1",
                  "keepalive", "asyncs"}) EXCEPT !.pdus = MaxExtra]]

InitVc == Start(VcEnv)

\* the steps of Next this environment enables
NextVc ==
    \/ \E t \in Threads : Put(t)
    \/ \E c \in Contexts :
          \/ Accept(c) \/ RdHead(c)
          \/ WrRep(c) \/ WrRepNobuf(c) \/ NobufBody(c)
          \/ RunOff(c) \/ WrWrite(c) \/ DebitBody(c) \/ WrFull(c)
          \/ PopBody(c)
          \/ EndBody(c) \/ EndFree(c)
          \/ CreateBody(c) \/ TcCreate(c)
          \/ RdBody(c) \/ RdConsume(c)
          \/ ForwardBody(c) \/ OutputBody(c) \/ PeerBody(c)
          \/ Wait(c) \/ WaitInBody(c)
    \/ AsyncReply
    \/ AsyncBody

SpecVc == InitVc /\ [][NextVc]_vars

\* ------------------------------------------------- IN channel recycling
\* clients open a VC and replace its IN channel; they present any channel
\* cookie, in any state of the channel
InEnv ==
    [tls |-> FALSE, polite |-> FALSE, cookies |-> {1}, logins |-> {"good"},
     methods |-> {"RPC_IN_DATA"}, clens |-> {"big"}, results |-> {"INPUT"},
     windows |-> {6}, frags |-> {1}, partial |-> FALSE, acks |-> {},
     length |-> 16 * MAX_RECLYING_REMAINING,
     clock |-> FALSE,
     fresh |-> FALSE,
     uris |-> {OkUri},
     keeps |-> {0},
     n |-> Only({"accepts", "requests", "conn_b1", "inr2_a1", "inr2_a5"})]

InitIn == Start(InEnv)

\* the steps of Next this environment enables
NextIn ==
    \/ \E t \in Threads : Put(t)
    \/ \E c \in Contexts :
          \/ Accept(c) \/ RdHead(c)
          \/ EndBody(c) \/ EndFree(c)
          \/ CreateBody(c) \/ TcCreate(c)
          \/ RdBody(c) \/ RdConsume(c)
          \/ RecycleInBody(c) \/ ActivateInBody(c)

SpecIn == InitIn /\ [][NextIn]_vars

\* ------------------------------------------------ OUT channel recycling
\* clients that follow MS-RPCH open a VC and replace its OUT channel while
\* requests arrive on the IN channel
RecycleEnv ==
    [tls |-> FALSE, polite |-> TRUE, cookies |-> {1}, logins |-> {"good"},
     methods |-> RpcMethods, clens |-> {"big"}, results |-> {"OUTPUT"},
     windows |-> {6}, frags |-> {1}, partial |-> FALSE, acks |-> {},
     length |-> MAX_RECLYING_REMAINING,
     clock |-> FALSE,
     fresh |-> FALSE,
     uris |-> {OkUri},
     keeps |-> {0},
     n |-> Only({"accepts", "requests", "pdus", "conn_a1", "conn_b1",
                 "outr2_a3", "outr2_c1", "outr2_a7"})]

InitRecycle == Start(RecycleEnv)

\* the steps of Next this environment enables
NextRecycle ==
    \/ \E t \in Threads : Put(t)
    \/ \E c \in Contexts :
          \/ Accept(c) \/ RdHead(c)
          \/ WrRep(c) \/ WrRepNobuf(c) \/ NobufBody(c)
          \/ RunOff(c) \/ WrWrite(c) \/ DebitBody(c) \/ WrFull(c)
          \/ PopBody(c)
          \/ EndBody(c) \/ EndFree(c)
          \/ CreateBody(c) \/ TcCreate(c)
          \/ RdBody(c) \/ RdConsume(c)
          \/ ForwardBody(c) \/ OutputBody(c)
          \/ RecycleOutBody(c) \/ ActivateOutBody(c)
          \/ Wait(c) \/ WaitInBody(c) \/ WaitRecBody(c)

SpecRecycle == InitRecycle /\ [][NextRecycle]_vars

\* --------------------------------------------------------- flow control
\* one VC whose client announces a small receive window, takes the bytes of
\* a response in parts and acknowledges them, and sends requests in
\* fragments of two sizes
FlowEnv ==
    [tls |-> FALSE, polite |-> TRUE, cookies |-> {1}, logins |-> {"good"},
     methods |-> RpcMethods, clens |-> {"big"},
     results |-> {"INPUT", "OUTPUT"},
     windows |-> {MaxPduLen}, frags |-> {1, MaxPduLen}, partial |-> TRUE,
     acks |-> {[bytes_received |-> MaxPduLen, available_window |-> MaxPduLen],
               [bytes_received |-> (MaxWord + 1) \div 2,
                available_window |-> (MaxWord + 1) \div 2]},
     length |-> 16 * MAX_RECLYING_REMAINING,
     clock |-> FALSE,
     fresh |-> FALSE,
     uris |-> {OkUri},
     keeps |-> {0},
     n |-> [Only({"requests", "pdus", "conn_a1", "conn_b1",
                  "flowcontrolack"}) EXCEPT !.accepts = 2]]

InitFlow == Start(FlowEnv)

\* the steps of Next this environment enables
NextFlow ==
    \/ \E t \in Threads : Put(t)
    \/ \E c \in Contexts :
          \/ Accept(c) \/ RdHead(c)
          \/ WrRep(c) \/ WrRepNobuf(c) \/ NobufBody(c)
          \/ RunOff(c) \/ WrWrite(c) \/ DebitBody(c) \/ WrFull(c)
          \/ PopBody(c)
          \/ EndBody(c) \/ EndFree(c)
          \/ CreateBody(c) \/ TcCreate(c)
          \/ RdBody(c) \/ RdConsume(c)
          \/ ForwardBody(c) \/ OutputBody(c) \/ PeerBody(c)
          \/ Wait(c) \/ WaitInBody(c)

SpecFlow == InitFlow /\ [][NextFlow]_vars

\* ------------------------------------------------- OUT channel length
\* one VC whose OUT channel advertises a length that a few responses use up
BudgetEnv ==
    [tls |-> FALSE, polite |-> TRUE, cookies |-> {1}, logins |-> {"good"},
     methods |-> RpcMethods, clens |-> {"big"}, results |-> {"OUTPUT"},
     windows |-> {MaxWord}, frags |-> {1}, partial |-> FALSE, acks |-> {},
     length |-> MAX_RECLYING_REMAINING + MaxPduLen,
     clock |-> FALSE,
     fresh |-> FALSE,
     uris |-> {OkUri},
     keeps |-> {0},
     n |-> [Only({"requests", "conn_a1", "conn_b1", "faults"})
               EXCEPT !.accepts = 2, !.pdus = MaxPdu + 1]]

InitBudget == Start(BudgetEnv)

\* the steps of Next this environment enables
NextBudget ==
    \/ \E t \in Threads : Put(t)
    \/ \E c \in Contexts :
          \/ Accept(c) \/ RdHead(c)
          \/ WrRep(c) \/ WrRepNobuf(c) \/ NobufBody(c)
          \/ RunOff(c) \/ WrWrite(c) \/ DebitBody(c) \/ WrFull(c)
          \/ PopBody(c)
          \/ EndBody(c) \/ EndFree(c)
          \/ CreateBody(c) \/ TcCreate(c)
          \/ RdBody(c) \/ RdConsume(c)
          \/ ForwardBody(c) \/ OutputBody(c)
          \/ Wait(c) \/ WaitInBody(c)

SpecBudget == InitBudget /\ [][NextBudget]_vars

\* ------------------------------------------------------------- timeouts
\* one VC with a clock: the clients open the channels and send a request,
\* or fall silent at any point; the client never acknowledges what it has
\* received
TimeEnv ==
    [tls |-> FALSE, polite |-> TRUE, cookies |-> {1}, logins |-> {"good"},
     methods |-> RpcMethods, clens |-> {"big"}, results |-> {"OUTPUT"},
     windows |-> {MaxPduLen}, frags |-> {1}, partial |-> FALSE, acks |-> {},
     length |-> MAX_RECLYING_REMAINING,
     clock |-> TRUE,
     fresh |-> FALSE,
     uris |-> {OkUri},
     keeps |-> {0},
     n |-> [Only({"conn_a1", "conn_b1"})
               EXCEPT !.accepts = 2, !.requests = 2, !.pdus = 1]]

InitTime == Start(TimeEnv)

\* the steps of context c the scheduler runs
Run(c) ==
    \/ Put(c)
    \/ RdHead(c)
    \/ WrRep(c) \/ WrRepNobuf(c) \/ NobufBody(c)
    \/ RunOff(c) \/ WrWrite(c) \/ DebitBody(c) \/ WrFull(c)
    \/ PopBody(c)
    \/ EndBody(c) \/ EndFree(c)
    \/ CreateBody(c) \/ TcCreate(c)
    \/ RdBody(c) \/ RdConsume(c)
    \/ ForwardBody(c) \/ OutputBody(c)
    \/ Wait(c) \/ WaitInBody(c)

\* the steps of Next this environment enables
NextTime ==
    \/ \E c \in Contexts : Accept(c) \/ Run(c)
    \/ Tick

SpecTime == InitTime /\ [][NextTime]_vars

\* shutdown: a few async replies around http_parser_shutdown_async
StopEnv ==
    [tls |-> FALSE, polite |-> TRUE, cookies |-> {1}, logins |-> {"good"},
     methods |-> RpcMethods, clens |-> {"big"}, results |-> {"OUTPUT"},
     windows |-> {6}, frags |-> {1}, partial |-> FALSE, acks |-> {},
     length |-> 16 * MAX_RECLYING_REMAINING,
     clock |-> FALSE,
     fresh |-> FALSE,
     uris |-> {OkUri},
     keeps |-> {0},
     n |-> [Only({"conn_a1", "conn_b1", "stops"})
               EXCEPT !.accepts = 2, !.requests = 2, !.asyncs = 2]]

InitStop == Start(StopEnv)

NextStop ==
    \/ \E t \in Threads : Put(t)
    \/ \E c \in Contexts :
          \/ Accept(c) \/ RdHead(c)
          \/ WrRep(c) \/ WrRepNobuf(c) \/ NobufBody(c)
          \/ WrWrite(c) \/ DebitBody(c) \/ WrFull(c)
          \/ PopBody(c)
          \/ EndBody(c) \/ EndFree(c)
          \/ CreateBody(c) \/ TcCreate(c)
          \/ RdBody(c) \/ RdConsume(c)
          \/ Wait(c) \/ WaitInBody(c)
    \/ ShutdownAsync
    \/ AsyncReply
    \/ AsyncBody

SpecStop == InitStop /\ [][NextStop]_vars

\* a full registry: IN channels on one VC each, connections that are lost,
\* and async replies that still hold a VC whose contexts are gone
CapEnv ==
    [tls |-> FALSE, polite |-> TRUE, cookies |-> Cookies,
     logins |-> {"good"},
     methods |-> {"RPC_IN_DATA"}, clens |-> {"big"}, results |-> {"INPUT"},
     windows |-> {6}, frags |-> {1}, partial |-> FALSE, acks |-> {},
     length |-> 16 * MAX_RECLYING_REMAINING,
     clock |-> FALSE,
     fresh |-> TRUE,
     uris |-> {OkUri},
     keeps |-> {0},
     n |-> [Only({}) EXCEPT !.accepts = g_context_num + 2,
                            !.requests = g_context_num + 2,
                            !.conn_b1 = g_context_num + 2,
                            !.drops = Cardinality(AsyncThreads),
                            !.asyncs = Cardinality(AsyncThreads)]]

InitCap == Start(CapEnv)

NextCap ==
    \/ \E t \in Threads : Put(t)
    \/ \E c \in Contexts :
          \/ Accept(c) \/ RdHead(c)
          \/ EndBody(c) \/ EndFree(c)
          \/ CreateBody(c) \/ TcCreate(c)
          \/ RdBody(c) \/ RdConsume(c)
    \/ \E a \in AsyncThreads : AsyncReplyBy(a) \/ AsyncBodyBy(a)

SpecCap == InitCap /\ [][NextCap]_vars

\* logins that fail and succeed on connections that are kept alive
AuthEnv ==
    [tls |-> FALSE, polite |-> TRUE, cookies |-> {1},
     logins |-> {"good", "bad"},
     methods |-> {"RPC_IN_DATA"}, clens |-> {"echo"}, results |-> {"INPUT"},
     windows |-> {6}, frags |-> {1}, partial |-> FALSE, acks |-> {},
     length |-> 16 * MAX_RECLYING_REMAINING,
     clock |-> FALSE,
     fresh |-> FALSE,
     uris |-> {OkUri},
     keeps |-> {0},
     n |-> [Only({"accepts"}) EXCEPT !.requests = g_max_auth_times + 2,
                                     !.faults = g_max_auth_times + 1]]

InitAuth == Start(AuthEnv)

NextAuth ==
    \E c \in Contexts :
       \/ Accept(c) \/ RdHead(c) \/ WrRep(c)
       \/ RdBodyNoChan(c)

SpecAuth == InitAuth /\ [][NextAuth]_vars

\* the scheduler runs a context in WRREP again and again, and the socket
\* of a client that reads takes the block in the end
FairAuth ==
    /\ SpecAuth
    /\ \A c \in Contexts : WF_vars(WrRep(c))

\* request lines with URIs of every shape
UriEnv ==
    [tls |-> FALSE, polite |-> TRUE, cookies |-> {1},
     logins |-> {"none", "good"},
     methods |-> RpcMethods \cup {"GET"}, clens |-> {"echo", "big"},
     results |-> {"INPUT"},
     windows |-> {6}, frags |-> {1}, partial |-> FALSE, acks |-> {},
     length |-> 16 * MAX_RECLYING_REMAINING,
     clock |-> FALSE,
     fresh |-> FALSE,
     uris |-> RpcUris \cup GetUris,
     keeps |-> {0},
     n |-> [Only({}) EXCEPT !.accepts = 2, !.requests = 2, !.faults = 2]]

InitUri == Start(UriEnv)

NextUri ==
    \E c \in Contexts :
       \/ Accept(c) \/ RdHead(c) \/ WrRep(c)
       \/ RdBodyNoChan(c) \/ RdBody(c)
       \/ EndBody(c) \/ EndFree(c)

SpecUri == InitUri /\ [][NextUri]_vars

\* tunnel requests whose Content-Length the body reaches, and PDUs whose
\* header says frag_length 0
BodyEnv ==
    [tls |-> FALSE, polite |-> TRUE, cookies |-> {1}, logins |-> {"good"},
     methods |-> RpcMethods, clens |-> {"exact", "big"},
     results |-> {"OUTPUT"},
     windows |-> {6}, frags |-> {1}, partial |-> FALSE, acks |-> {},
     length |-> 16 * MAX_RECLYING_REMAINING,
     clock |-> FALSE,
     fresh |-> FALSE,
     uris |-> {OkUri},
     keeps |-> {0},
     n |-> [Only({"conn_a1", "conn_b1", "zeros"})
               EXCEPT !.accepts = 2, !.requests = 2, !.ping = BodyLen]]

InitBody == Start(BodyEnv)

NextBody ==
    \/ \E t \in Threads : Put(t)
    \/ \E c \in Contexts :
          \/ Accept(c) \/ RdHead(c)
          \/ WrRep(c) \/ WrRepNobuf(c) \/ NobufBody(c)
          \/ WrWrite(c) \/ DebitBody(c) \/ WrFull(c)
          \/ PopBody(c)
          \/ EndBody(c) \/ EndFree(c)
          \/ CreateBody(c) \/ TcCreate(c)
          \/ RdBody(c) \/ RdConsume(c)
          \/ Wait(c) \/ WaitInBody(c)

SpecBody == InitBody /\ [][NextBody]_vars

\* two IN tunnels and an OUT tunnel that present the same connection cookie
SlotEnv ==
    [tls |-> FALSE, polite |-> TRUE, cookies |-> {1}, logins |-> {"good"},
     methods |-> RpcMethods, clens |-> {"big"}, results |-> {"INPUT"},
     windows |-> {6}, frags |-> {1}, partial |-> FALSE, acks |-> {},
     length |-> 16 * MAX_RECLYING_REMAINING,
     clock |-> FALSE,
     fresh |-> FALSE,
     uris |-> {OkUri},
     keeps |-> {0},
     n |-> [Only({"accepts", "requests"})
               EXCEPT !.conn_a1 = 1, !.conn_b1 = 2, !.pdus = 1]]

InitSlot == Start(SlotEnv)

NextSlot ==
    \/ \E t \in Threads : Put(t)
    \/ \E c \in Contexts :
          \/ Accept(c) \/ RdHead(c)
          \/ WrRep(c) \/ WrRepNobuf(c) \/ NobufBody(c)
          \/ RunOff(c) \/ WrWrite(c) \/ DebitBody(c) \/ WrFull(c)
          \/ PopBody(c)
          \/ EndBody(c) \/ EndFree(c)
          \/ CreateBody(c) \/ TcCreate(c)
          \/ RdBody(c) \/ RdConsume(c)
          \/ ForwardBody(c)
          \/ Wait(c) \/ WaitInBody(c)

SpecSlot == InitSlot /\ [][NextSlot]_vars

\* an IN tunnel and an OUT tunnel of one VC, in either order; the requests
\* are answered, and the OUT channel is short enough to reach its end
RouteEnv ==
    [tls |-> FALSE, polite |-> TRUE, cookies |-> {1}, logins |-> {"good"},
     methods |-> RpcMethods, clens |-> {"big"}, results |-> {"OUTPUT"},
     windows |-> {6}, frags |-> {1}, partial |-> FALSE, acks |-> {},
     length |-> MAX_RECLYING_REMAINING,
     clock |-> FALSE,
     fresh |-> FALSE,
     uris |-> {OkUri},
     keeps |-> {0},
     n |-> [Only({"accepts", "requests", "pdus"})
               EXCEPT !.conn_a1 = 1, !.conn_b1 = 1]]

InitRoute == Start(RouteEnv)

NextRoute ==
    \/ \E t \in Threads : Put(t)
    \/ \E c \in Contexts :
          \/ Accept(c) \/ RdHead(c)
          \/ WrRep(c) \/ WrRepNobuf(c) \/ NobufBody(c)
          \/ RunOff(c) \/ WrWrite(c) \/ DebitBody(c) \/ WrFull(c)
          \/ PopBody(c)
          \/ EndBody(c) \/ EndFree(c)
          \/ CreateBody(c) \/ TcCreate(c)
          \/ RdBody(c) \/ RdConsume(c)
          \/ ForwardBody(c) \/ OutputBody(c)
          \/ Wait(c) \/ WaitInBody(c)

SpecRoute == InitRoute /\ [][NextRoute]_vars

\* one VC whose OUT channel reaches its end and is replaced by a successor
OpenEnv ==
    [RecycleEnv EXCEPT
       !.n = [Only({"accepts", "requests", "outr2_a3", "outr2_c1",
                    "outr2_a7"})
                 EXCEPT !.conn_a1 = 1, !.conn_b1 = 1, !.pdus = 1]]

InitOpen == Start(OpenEnv)

NextOpen == NextRecycle

SpecOpen == InitOpen /\ [][NextOpen]_vars

\* one VC, and a third tunnel that asks to replace its IN or its OUT channel
\* and presents any channel cookie as that of its predecessor
RenewEnv ==
    [RouteEnv EXCEPT
       !.n = [Only({"accepts", "requests"})
                 EXCEPT !.conn_a1 = 1, !.conn_b1 = 1, !.inr2_a1 = 1,
                        !.outr2_a3 = 1, !.pdus = 1]]

InitRenew == Start(RenewEnv)

NextRenew ==
    \/ NextRoute
    \/ \E c \in Contexts : RecycleInBody(c) \/ RecycleOutBody(c)

SpecRenew == InitRenew /\ [][NextRenew]_vars

\* one VC whose client tells the server in a FlowControlAck that its
\* receive window is closed
RaceEnv ==
    [FlowEnv EXCEPT
       !.results = {"OUTPUT"},
       !.frags = {1},
       !.partial = FALSE,
       !.acks = {[bytes_received |-> 0, available_window |-> 0]}]

InitRace == Start(RaceEnv)

NextRace == NextFlow

SpecRace == InitRace /\ [][NextRace]_vars

\* clients of one VC that send PDUs the RTS parser refuses, in any state of
\* their channel, and requests the processor refuses
ErrorEnv ==
    [tls |-> FALSE, polite |-> FALSE, cookies |-> {1}, logins |-> {"good"},
     methods |-> RpcMethods, clens |-> {"big"},
     results |-> {"INPUT", "ERROR"},
     windows |-> {6}, frags |-> {1}, partial |-> FALSE, acks |-> {},
     length |-> 16 * MAX_RECLYING_REMAINING,
     clock |-> FALSE,
     fresh |-> FALSE,
     uris |-> {OkUri},
     keeps |-> {0},
     n |-> [Only({"requests"})
               EXCEPT !.accepts = 2, !.conn_a1 = 1, !.conn_b1 = 1,
                      !.bad = 2, !.outr2_c1 = 1, !.pdus = 1]]

InitError == Start(ErrorEnv)

NextError ==
    \/ \E t \in Threads : Put(t)
    \/ \E c \in Contexts :
          \/ Accept(c) \/ RdHead(c)
          \/ WrRep(c) \/ WrRepNobuf(c) \/ NobufBody(c)
          \/ WrWrite(c) \/ DebitBody(c) \/ WrFull(c)
          \/ PopBody(c)
          \/ EndBody(c) \/ EndFree(c)
          \/ CreateBody(c) \/ TcCreate(c)
          \/ RdBody(c) \/ RdConsume(c)
          \/ ForwardBody(c)
          \/ Wait(c) \/ WaitInBody(c)

SpecError == InitError /\ [][NextError]_vars

\* --------------------------------------------------------------- STREAM
\* the values of a byte: 0 stands for a byte no client has sent
Bytes == 0 .. (MaxBlocks * STREAM_BLOCK_SIZE)

\* STREAM::get_read_buf with *psize = STREAM_BLOCK_SIZE: the unread bytes up
\* to the end of the block the read position is in, and the stream with the
\* read position behind them; no bytes stands for nullptr
get_read_buf(s) ==
    LET left == Len(s.data) - s.rd_total_pos
        room == STREAM_BLOCK_SIZE - (s.rd_total_pos % STREAM_BLOCK_SIZE)
        size == IF left < room THEN left ELSE room
    IN [buf |-> SubSeq(s.data, s.rd_total_pos + 1, s.rd_total_pos + size),
        s |-> [s EXCEPT !.rd_total_pos = @ + size]]

\* STREAM::get_write_buf on a block nothing was written to: the bytes it
\* holds are whatever the allocator left there
fresh_block(junk) == [i \in 1 .. STREAM_BLOCK_SIZE |-> junk]

\* memcpy(pbuff1 + at, buf, Len(buf))
memcpy(pbuff1, at, buf) ==
    [i \in 1 .. STREAM_BLOCK_SIZE |->
        IF i > at /\ i <= at + Len(buf) THEN buf[i - at] ELSE pbuff1[i]]

\* http_parser_reconstruct_stream, line 360: the bytes that fit into the
\* block are copied to its start
copy_fitting(pbuff1, size1_used, buf) == memcpy(pbuff1, 0, buf)

\* http_parser_reconstruct_stream, lines 358-383: the loop, entered with the
\* bytes buf of the last get_read_buf on src, the full blocks dst, the
\* block pbuff1 being filled, and blocks_free blocks left in the allocator
RECURSIVE reconstruct_loop(_, _, _, _, _, _, _)
reconstruct_loop(src, buf, dst, pbuff1, size1_used, blocks_free, junk) ==
    LET size == Len(buf)
        size_copied == STREAM_BLOCK_SIZE - size1_used
        next == get_read_buf(src)
        fits == size <= STREAM_BLOCK_SIZE - size1_used
        full == memcpy(pbuff1, size1_used, SubSeq(buf, 1, size_copied))
        block == IF fits THEN copy_fitting(pbuff1, size1_used, buf)
                 ELSE memcpy(fresh_block(junk), 0,
                             SubSeq(buf, size_copied + 1, size))
        used == IF fits THEN size1_used + size ELSE size - size_copied
        done == IF fits THEN dst ELSE dst \o full
    IN IF ~fits /\ blocks_free = 0
       THEN \* get_write_buf returned nullptr
            [ret |-> -1, s |-> src]
       ELSE IF next.buf = <<>>
       THEN \* fwd_write_ptr(size1_used), get_total_length, the move
            LET data == done \o SubSeq(block, 1, used)
            IN [ret |-> Len(data), s |-> Stream(data, 0)]
       ELSE reconstruct_loop(next.s, next.buf, done, block, used,
                             IF fits THEN blocks_free ELSE blocks_free - 1,
                             junk)

\* http_parser_reconstruct_stream, lines 342-383: the value returned and
\* what stream_src is afterwards
http_parser_reconstruct_stream(stream_src, blocks_free, junk) ==
    LET first == get_read_buf(stream_src)
    IN IF first.buf = <<>>
       THEN [ret |-> 0, s |-> NoStream]
       ELSE reconstruct_loop(first.s, first.buf, <<>>, fresh_block(junk), 0,
                             blocks_free, junk)

\* the streams a handler may hand to http_parser_reconstruct_stream: bytes
\* 1, 2, ... as the client sent them, a part of them read
Streams ==
    {Stream([i \in 1 .. n |-> i], rd) :
        n \in 0 .. (MaxBlocks * STREAM_BLOCK_SIZE),
        rd \in 0 .. (MaxBlocks * STREAM_BLOCK_SIZE)}

\* htparse_rdbody, lines 1523-1526 (and the other eight callers): stream_in
\* is rebuilt, and without memory the request ends with the 503 page
Reconstruct(c) ==
    /\ Dispatch(c, "rdbody")
    /\ ~ctx[c].rebuilt
    /\ \E blocks_free \in 0 .. MaxBlocks, junk \in Bytes :
          LET got == http_parser_reconstruct_stream(ctx[c].stream,
                                                    blocks_free, junk)
              r == [ctx[c] EXCEPT !.stream = got.s, !.tl = got.ret,
                                  !.rebuilt = TRUE]
          IN ctx' = [ctx EXCEPT ![c] = IF got.ret < 0
                                       THEN http_done(r, "5032") ELSE r]
    /\ Leave(c, "idle")
    /\ access' = NoAccess
    /\ UNCHANGED <<chan, g_async_stop, env, crashed>>

StreamEnv ==
    [tls |-> FALSE, polite |-> TRUE, cookies |-> {1}, logins |-> {"good"},
     methods |-> RpcMethods, clens |-> {"big"}, results |-> {"OUTPUT"},
     windows |-> {MaxPduLen}, frags |-> {1}, partial |-> FALSE, acks |-> {},
     length |-> MAX_RECLYING_REMAINING,
     clock |-> FALSE,
     fresh |-> FALSE,
     uris |-> {OkUri},
     keeps |-> {0},
     n |-> Only({})]

\* one context is about to rebuild its stream_in
InitStream ==
    /\ \E c \in Contexts :
          \E s \in {t \in Streams : t.rd_total_pos <= Len(t.data)} :
             ctx = [o \in Contexts |->
                      IF o = c
                      THEN [ClearContext EXCEPT !.sockd = TRUE,
                                                !.sched_stat = "rdbody",
                                                !.b_close = FALSE,
                                                !.stream = s]
                      ELSE ClearContext]
    /\ chan = [c \in Contexts |-> NewChannel]
    /\ g_vconnection_hash = [k \in Cookies |-> NoVconn]
    /\ g_vconnection_lock = Free
    /\ g_async_stop = FALSE
    /\ pc = [t \in Threads |-> "idle"]
    /\ frame = [t \in Threads |-> NoFrame]
    /\ access = NoAccess
    /\ env = [n |-> [e \in EnvKinds |-> 0], max |-> StreamEnv]
    /\ crashed = FALSE

NextStream == \E c \in Contexts : Reconstruct(c)

SpecStream == InitStream /\ [][NextStream]_vars

\* the scheduler runs every context again and again (an idle context after
\* a tick, a polling context when its socket is ready or its time is over),
\* a thread that waits for the mutex of a VC gets it in the end, and time
\* goes on
FairTime ==
    /\ SpecTime
    /\ WF_vars(Tick)
    /\ \A c \in Contexts : SF_vars(Run(c))

\* one VC with a ClientKeepalive of two ticks, a receive window of one
\* response, and a clock
PingEnv ==
    [tls |-> FALSE, polite |-> TRUE, cookies |-> {1}, logins |-> {"good"},
     methods |-> RpcMethods, clens |-> {"big"}, results |-> {"OUTPUT"},
     windows |-> {MaxPduLen}, frags |-> {1}, partial |-> FALSE, acks |-> {},
     length |-> 16 * MAX_RECLYING_REMAINING,
     clock |-> TRUE,
     fresh |-> FALSE,
     uris |-> {OkUri},
     keeps |-> {2},
     n |-> [Only({"conn_a1", "conn_b1", "closes"})
               EXCEPT !.accepts = 2, !.requests = 2, !.pdus = 1,
                      !.pings = 1]]

InitPing == Start(PingEnv)

RunPing(c) ==
    \/ Run(c)
    \/ PingBody(c)

NextPing ==
    \/ \E c \in Contexts : Accept(c) \/ RunPing(c)
    \/ Tick

SpecPing == InitPing /\ [][NextPing]_vars

\* the contexts pool runs every context again and again, and time passes
FairPing ==
    /\ SpecPing
    /\ WF_vars(Tick)
    /\ \A c \in Contexts : SF_vars(RunPing(c))

\* ================================================================ claims
\* context c has just handled a complete request head in this step
HeadHandled(c) ==
    /\ pc[c] = "idle"
    /\ ctx[c].sockd
    /\ ctx[c].sched_stat = "rdhead"
    /\ env'.n.requests = env.n.requests + 1
    /\ ctx'[c] # ctx[c]

\* C4: a context whose channel kind is IN or OUT has a channel and is in
\* RDBODY, WRREP or WAIT, also when the allocation of the channel failed and
\* after an error reply
C4_KindHasChannel ==
    \A c \in Contexts :
       ctx[c].channel_type \in {"in", "out"} =>
          /\ ctx[c].pchannel # "null"
          /\ ctx[c].sched_stat \in {"rdbody", "wrrep", "wait"}

\* C5: a context in RDBODY has no channel kind, or has a channel object of
\* the kind its channel kind names
C5_RdBodyChannelKind ==
    \A c \in Contexts :
       ctx[c].sched_stat = "rdbody" =>
          \/ ctx[c].channel_type = "none"
          \/ /\ ctx[c].pchannel # "null"
             /\ ctx[c].pchannel = ctx[c].channel_type

\* a context reads the body of a tunnel request into its IN channel
C5_Witness ==
    \E c \in Contexts :
       /\ ctx[c].sched_stat = "rdbody"
       /\ ctx[c].channel_type = "in"
       /\ ctx[c].pchannel = "in"

\* what C6 asks of the step that handles the head of a tunnel request on a
\* context that is not authenticated; answers are the replies it allows for
\* a well-formed URI
UnauthedTunnel(c, answers) ==
    (HeadHandled(c) /\ ctx'[c].method \in RpcMethods /\ ~ctx'[c].b_authed) =>
       /\ ctx'[c].pchannel = "null"
       /\ ctx'[c].channel_type = "none"
       /\ ctx'[c].sched_stat # "rdbody"
       /\ ctx'[c].uri = OkUri =>
             /\ ctx'[c].sched_stat = "wrrep"
             /\ \E a \in answers :
                   ctx'[c].stream_out = Append(ctx[c].stream_out, a)

\* C6 as stated: a context that is not authenticated gets no channel and
\* does not enter RDBODY for an RPC_IN_DATA/RPC_OUT_DATA request; with a
\* well-formed URI the request is answered 401 with the Basic challenge
C6_Unauthed401 ==
    [][\A c \in Contexts : UnauthedTunnel(c, {"401c"})]_vars

\* C6, amended: ... answered 401 with the Basic challenge, or 503 when the
\* user filter denies the user of its credentials
C6_Unauthed401Or503 ==
    [][\A c \in Contexts :
          /\ UnauthedTunnel(c, {"401c", "503"})
          /\ (HeadHandled(c) /\ ctx'[c].method \in RpcMethods
              /\ ~ctx'[c].b_authed /\ ctx'[c].uri = OkUri
              /\ ctx'[c].attempt # "denied") =>
                ctx'[c].stream_out = Append(ctx[c].stream_out, "401c")]_vars

\* a tunnel request without credentials has been answered 401
C6_Witness ==
    \E c \in Contexts :
       /\ ctx[c].method \in RpcMethods
       /\ ctx[c].uri = OkUri
       /\ ctx[c].attempt = "none"
       /\ ~ctx[c].b_authed
       /\ ctx[c].pchannel = "null"
       /\ ctx[c].sched_stat = "wrrep"
       /\ ctx[c].stream_out = <<"401c">>

\* C7: when the backend accepts the credentials but the storage path is
\* empty, the request is answered 401 and the context is left not
\* authenticated, whatever happened on the connection before
C7_NoMaildirNotAuthed ==
    [][\A c \in Contexts :
          (HeadHandled(c) /\ ctx'[c].attempt = "nomaildir") =>
             /\ ctx'[c].stream_out = Append(ctx[c].stream_out, "401c")
             /\ ~ctx'[c].b_authed]_vars

\* C1: VCONN_REF::put removes a VC from the registry only when its reference
\* count has dropped to 0 and pcontext_in and pcontext_out are both null: no
\* other thread borrows it, no context is bound to it
C1_RemovedOnlyUnused ==
    [][\A k \in Cookies :
          (g_vconnection_hash[k].present /\ ~g_vconnection_hash'[k].present) =>
             /\ g_vconnection_hash[k].pcontext_in = NULL
             /\ g_vconnection_hash[k].pcontext_out = NULL
             /\ g_vconnection_hash[k].reference = 1
             /\ \E t \in Threads : /\ pc[t] = "put"
                                   /\ pc'[t] # "put"
                                   /\ frame[t].k = k
                                   /\ Borrowers(k) = {t}]_vars

\* VCONN_REF::put has just removed a VC that contexts had been bound to
C1_Witness ==
    \E a \in access :
       /\ a.registry
       /\ ~g_vconnection_hash[a.k].present
       /\ \E c \in Contexts : /\ ctx[c].pchannel # "null"
                              /\ chan[c].connection_cookie = a.k

\* C2: no thread holds more than one VC mutex, and no thread holds a VC
\* mutex when it takes the registry mutex (in the lookup, in VCONN_REF::put,
\* in try_create_vconnection)
C2_LockOrder ==
    /\ \A t \in Threads : Cardinality(HeldBy(t)) <= 1
    /\ g_vconnection_lock = Free

\* a thread holds the mutex of a VC while another thread, which has been
\* through the registry, waits for the same mutex
C2_Witness ==
    \E t, u \in Threads :
       /\ t # u
       /\ pc[t] = "put"
       /\ HeldBy(t) = {frame[t].k}
       /\ pc[u] = "body"
       /\ frame[u].found
       /\ frame[u].k = frame[t].k

\* C3 as stated: the slots of a VC, the PDU queues of its channels and its
\* processor are only touched by a thread that holds the mutex of the VC
C3_AlwaysUnderVcMutex == access = NoAccess

\* C3, amended: ... or, for the slots, by a thread that holds the registry
\* mutex while no thread has a reference to the VC: try_create_vconnection
\* fills the slot of a VC it inserts, and VCONN_REF::put reads the slots
\* once the reference count is 0
C3_VcMutexOrUnreferenced ==
    \A a \in access :
       /\ a.registry
       /\ g_vconnection_hash[a.k].reference = 0
       /\ Borrowers(a.k) = {}
       /\ \A t \in Threads : a.k \notin HeldBy(t)

\* try_create_vconnection has just inserted a VC and bound its context
C3_Witness ==
    \E a \in access :
       /\ a.registry
       /\ g_vconnection_hash[a.k].present
       /\ pc[a.t] = "consume"
       /\ a.t \in {g_vconnection_hash[a.k].pcontext_in,
                   g_vconnection_hash[a.k].pcontext_out}

\* s is a prefix of q
IsPrefix(s, q) ==
    /\ Len(s) <= Len(q)
    /\ \A i \in 1 .. Len(s) : s[i] = q[i]

\* the numbers of the request fragments the responses in q answer, in the
\* order of q
Responses(q) == SelectSeq(q, LAMBDA p : p.kind = "rsp")

Increasing(q) == \A i, j \in 1 .. Len(q) : i < j => q[i].n < q[j].n

\* C8: an OUT context writes the PDUs of its queue to the socket in the
\* order they were appended, and the responses were appended in the order
\* their requests arrived on the IN channel
C8_QueueFifo ==
    \A c \in Contexts :
       ctx[c].pchannel = "out" =>
          /\ IsPrefix(chan[c].sent, chan[c].enq)
          /\ Increasing(Responses(chan[c].enq))

\* C9: when a successor OUT channel takes over, the PDUs parked on the IN
\* channel reach its queue before any PDU produced after them: no OUT queue
\* of the VC has a response younger than one that is still parked
C9_ParkedFirst ==
    \A i, o \in Contexts :
       (/\ ctx[i].pchannel = "in"
        /\ ctx[o].pchannel = "out"
        /\ chan[i].connection_cookie = chan[o].connection_cookie) =>
          \A x \in 1 .. Len(Responses(chan[i].pdu_list)),
             y \in 1 .. Len(Responses(chan[o].enq)) :
                Responses(chan[o].enq)[y].n < Responses(chan[i].pdu_list)[x].n

\* context c returns from activate_inrecycling with TRUE in this step
Activated(c) ==
    /\ pc[c] = "body"
    /\ frame[c].op = "activate_in"
    /\ pc'[c] = "put"
    /\ frame'[c].res = rts_result(TRUE)

\* C10: a successful activate_inrecycling by context S on VC V with
\* predecessor P = V.pcontext_in leaves P's channel RECYCLED, V.pcontext_in
\* = S, V.pcontext_insucc = NULL and S's channel OPENED; it succeeds only
\* when S is V.pcontext_insucc and the cookie it presents is the cookie of
\* its own channel
C10_ActivateIn ==
    [][\A s \in Contexts :
          Activated(s) =>
             LET k == frame[s].k
                 p == g_vconnection_hash[k].pcontext_in
             IN /\ g_vconnection_hash[k].pcontext_insucc = s
                /\ frame[s].arg = chan[s].channel_cookie
                /\ g_vconnection_hash'[k].pcontext_in = s
                /\ g_vconnection_hash'[k].pcontext_insucc = NULL
                /\ chan'[s].channel_stat = "opened"
                /\ (p # NULL /\ p # s) =>
                      chan'[p].channel_stat = "recycled"]_vars

\* a successor has been activated and its predecessor is RECYCLED
C10_Witness ==
    \E s, p \in Contexts :
       /\ s # p
       /\ pc[s] = "put"
       /\ frame[s].op = "activate_in"
       /\ frame[s].res = rts_result(TRUE)
       /\ g_vconnection_hash[frame[s].k].pcontext_in = s
       /\ chan[s].channel_stat = "opened"
       /\ ctx[p].pchannel = "in"
       /\ chan[p].channel_stat = "recycled"

\* context c returns from activate_outrecycling with TRUE in this step
ActivatedOut(c) ==
    /\ pc[c] = "body"
    /\ frame[c].op = "activate_out"
    /\ pc'[c] = "put"
    /\ frame'[c].res = rts_result(TRUE)

\* C11: a successful activate_outrecycling on VC V with predecessor P =
\* V.pcontext_out and successor S = V.pcontext_outsucc leaves V.pcontext_out
\* = S and V.pcontext_outsucc = NULL, has queued OUT_R2/B3 on P, and leaves
\* P's channel RECYCLED, so that P closes once it has drained its queue
C11_ActivateOut ==
    [][\A c \in Contexts :
          ActivatedOut(c) =>
             LET k == frame[c].k
                 p == g_vconnection_hash[k].pcontext_out
                 s == g_vconnection_hash[k].pcontext_outsucc
             IN /\ g_vconnection_hash'[k].pcontext_out = s
                /\ g_vconnection_hash'[k].pcontext_outsucc = NULL
                /\ chan'[p].enq = Append(chan[p].enq, Pdu("outr2_b3", 0))
                /\ chan'[p].channel_stat = "recycled"]_vars

\* the state of the OUT channel of context c changes in this step (the
\* channel object is the same before and after)
OutChange(c) ==
    /\ ctx[c].pchannel = "out"
    /\ ctx'[c].pchannel = "out"
    /\ chan'[c].channel_stat # chan[c].channel_stat

\* every change of the state of an OUT channel is one of moves, or leads to
\* RECYCLED
OutMoves(moves) ==
    \A c \in Contexts :
       OutChange(c) =>
          \/ <<chan[c].channel_stat, chan'[c].channel_stat>> \in moves
          \/ chan'[c].channel_stat = "recycled"

Debited(c) ==
    /\ pc[c] = "body"
    /\ frame[c].op = "debit"
    /\ pc'[c] # "body"

C14_WindowCoversAcked ==
    \A c \in Contexts :
       ctx[c].pchannel = "out" =>
          chan[c].available_window + chan[c].bytes_sent >= chan[c].acked

\* the processor has just taken a fragment that context c forwarded from its
\* opened IN channel
Forwarded(c) ==
    /\ pc[c] = "body"
    /\ frame[c].op = "forward"
    /\ pc'[c] = "put"
    /\ frame'[c].ret = "processed"
    /\ frame'[c].res \in {"INPUT", "OUTPUT"}

\* the OUT channel bound to the VC of the operation of context c
PairedOut(c) == g_vconnection_hash[frame[c].k].pcontext_out

\* in this step one flow control ack with the values of ack left the IN
\* channel of c for the OUT channel o: queued on o at once for a fragment,
\* attached to the call of a complete request
AckEmitted(c, o, ack) ==
    IF frame'[c].res = "INPUT"
    THEN /\ chan'[o].pdu_list = Append(chan[o].pdu_list, ack)
         /\ chan'[o].enq = Append(chan[o].enq, ack)
         /\ frame'[c].ack = NoBuf
    ELSE /\ frame'[c].ack = ack
         /\ chan'[o] = chan[o]

\* in this step no flow control ack was built
NoAckEmitted(c, o) ==
    /\ frame'[c].ack = NoBuf
    /\ o # NULL => chan'[o] = chan[o]

C16_A2BeforeExhausted ==
    \A c \in Contexts :
       (/\ OutOpened(c)
        /\ ctx[c].total_length > 0
        /\ ctx[c].bytes_rw >= ctx[c].total_length) => chan[c].b_obsolete

\* the OUT context c waits for the IN channel of its VC, or for the
\* activation of its channel as a successor
WaitingOut(c) ==
    /\ ctx[c].sockd
    /\ ctx[c].pchannel = "out"
    /\ chan[c].channel_stat \in {"waitinchannel", "waitrecycled"}

\* the wait handler of context c has just looked for the pair and has not
\* found it
WaitedInVain(c) ==
    /\ pc[c] = "body"
    /\ frame[c].op \in {"waitin", "waitrec"}
    /\ pc'[c] # "body"
    /\ LET v == g_vconnection_hash[frame[c].k]
       IN ~(frame[c].found /\ v.pcontext_out = c /\ v.pcontext_in # NULL)

IoStalled(c) ==
    /\ ctx[c].sockd
    /\ ctx[c].sched_stat \in {"initssl", "rdhead", "rdbody", "wrrep"}
    /\ ctx[c].elapsed >= g_timeout

\* C18: in every I/O state (INITSSL, RDHEAD, RDBODY, WRREP) a context whose
\* read or write has made no progress for g_timeout is closed or transfers
\* bytes again; none stays there forever, an opened OUT channel in WRREP
\* whose flow-control window is exhausted included
C18_IoEnds == \A c \in Contexts : IoStalled(c) ~> ~IoStalled(c)

\* try_create_vconnection has just taken a slot of an existing VC for c
Joined(c) == pc[c] = "body" /\ frame[c].op = "create" /\ pc'[c] = "put"

\* the peer of c on the VC that c is about to join
Peer(c) ==
    LET v == g_vconnection_hash[frame[c].k]
    IN IF ctx[c].channel_type = "out" THEN v.pcontext_in ELSE v.pcontext_out

\* C20 as stated: when try_create_vconnection sets ctx_in or ctx_out on a VC
\* whose peer slot is occupied, the peer context is signaled, in both
\* directions
C20_PeerSignaled ==
    [][\A c \in Contexts :
          (Joined(c) /\ Peer(c) # NULL) => frame'[c].signal = Peer(c)]_vars

\* C20: when try_create_vconnection sets a slot of an existing VC, the OUT
\* context of the VC is signaled if the arriving context is an IN context
\* and an OUT context is present; an arriving OUT context signals nobody
C20_InArrivalSignalsOut ==
    [][\A c \in Contexts :
          Joined(c) =>
             frame'[c].signal =
                IF ctx[c].channel_type = "in" THEN Peer(c) ELSE NULL]_vars

\* an IN context has joined the VC of a waiting OUT context and woken it
C20_Witness ==
    \E c \in Contexts :
       /\ pc[c] = "put"
       /\ frame[c].op = "create"
       /\ ctx[c].channel_type = "in"
       /\ frame[c].signal # NULL
       /\ frame[c].signal = g_vconnection_hash[frame[c].k].pcontext_out
       /\ g_vconnection_hash[frame[c].k].pcontext_in = c
       /\ chan[frame[c].signal].channel_stat = "waitinchannel"

\* an OUT context that waits for its IN channel while the VC has both halves
PairedWaiting(c) ==
    /\ ctx[c].sockd
    /\ ctx[c].pchannel = "out"
    /\ chan[c].channel_stat = "waitinchannel"
    /\ chan[c].connection_cookie \in DOMAIN g_vconnection_hash
    /\ LET v == g_vconnection_hash[chan[c].connection_cookie]
       IN v.present /\ v.pcontext_out = c /\ v.pcontext_in # NULL

\* htparse_waitinchannel has run for c and found both halves of the VC
PairedRun(c) ==
    /\ pc[c] = "body"
    /\ frame[c].op = "waitin"
    /\ pc'[c] # "body"
    /\ frame[c].found
    /\ g_vconnection_hash[frame[c].k].pcontext_out = c
    /\ g_vconnection_hash[frame[c].k].pcontext_in # NULL

\* an IN context takes its slot of a VC whose OUT context is waiting: the OUT
\* context is signaled
SignalsWaitingOut ==
    \A c \in Contexts :
       (Joined(c) /\ ctx[c].channel_type = "in" /\ Peer(c) # NULL)
          => frame'[c].signal = Peer(c)

\* the pairing step: the window of the IN channel is set, CONN/C2 is queued
\* and the OUT channel is opened, unless CONN/C2 cannot be built
PairingStep ==
    \A c \in Contexts :
       PairedRun(c) =>
          LET i == g_vconnection_hash[frame[c].k].pcontext_in
          IN /\ chan'[i].available_window = chan[c].window_size
             /\ chan'[i].bytes_received = 0
             /\ \/ /\ frame'[c].ret = "runoff"
                   /\ chan'[c] = chan[c]
                \/ /\ chan'[c].channel_stat = "opened"
                   /\ chan'[c].pdu_list =
                         Append(chan[c].pdu_list, Pdu("conn_c2", 0))
                   /\ ctx'[c].sched_stat = "wrrep"

AsyncStarted == env'.n.asyncs # env.n.asyncs

\* C21: once async_stop is set, an async reply that starts afterwards returns
\* without looking up, locking or modifying any virtual connection, PDU queue
\* or context
C21_StoppedAsyncReturns ==
    [][(g_async_stop /\ AsyncStarted) =>
          /\ UNCHANGED <<g_vconnection_hash, chan, ctx, pc>>
          /\ frame'[Async].op = ""
          /\ ~frame'[Async].found
          /\ access' = NoAccess
          /\ g_vconnection_lock' = Free]_vars

\* an async reply has noticed the flag while the VC it names has an OUT
\* context whose queue it would have appended to
C21_Witness ==
    /\ g_async_stop
    /\ frame[Async].res = "noticed async_stop"
    /\ pc[Async] = "idle"
    /\ \E k \in Cookies :
          LET v == g_vconnection_hash[k]
          IN /\ v.present
             /\ v.pcontext_out # NULL
             /\ OutOpened(v.pcontext_out)
             /\ chan[v.pcontext_out].pdu_list = <<>>

\* context c has gone through try_create_vconnection in this step
TcCreated(c) == pc[c] = "tc_create" /\ pc'[c] = "consume"

\* C22: the registry never holds more than g_context_num + 1 virtual
\* connections, and a bind attempt made when it already holds that many
\* fails and leaves the registry unchanged
C22_RegistryBounded ==
    /\ [](hash_size(g_vconnection_hash) <= g_context_num + 1)
    /\ [][\A c \in Contexts :
            (TcCreated(c)
             /\ hash_size(g_vconnection_hash) >= g_context_num + 1) =>
               /\ UNCHANGED g_vconnection_hash
               /\ frame'[c].res = "ERROR"
               /\ chan'[c].channel_stat = chan[c].channel_stat]_vars

\* a bind for a new cookie has just failed at a registry that holds
\* g_context_num + 1 virtual connections
C22_Witness ==
    \E c \in Contexts :
       /\ pc[c] = "consume"
       /\ frame[c].op = "create"
       /\ frame[c].res = "ERROR"
       /\ ~hash_find(g_vconnection_hash, frame[c].k)
       /\ hash_size(g_vconnection_hash) = g_context_num + 1

\* the order in which htparse_rdhead_st asks the handlers
HandlerOrder == <<"hpm", "fcgi", "cache">>

\* context c has been answered code in this step
Replied(c, code) == ctx'[c].stream_out = Append(ctx[c].stream_out, code)

\* the body owner of the request whose head context c has handled
OwnerByPriority(c) ==
    LET r == ctx'[c]
        q == r.asked
        n == Len(q)
    IN IF r.method \in RpcMethods
       THEN \* the RPC tunnel: no handler is asked
            /\ q = <<>>
            /\ r.in_charge = "none"
            /\ \/ r.sched_stat = "rdbody"
               \/ \E code \in {"400", "401c", "503", "5032"} : Replied(c, code)
       ELSE /\ n \in 1 .. Len(HandlerOrder)
            /\ \A i \in 1 .. n : q[i].h = HandlerOrder[i]
            /\ \A i \in 1 .. (n - 1) : q[i].s = "0"
            /\ q[n].s = "200" =>
                  \/ r.in_charge = q[n].h
                  \/ /\ r.in_charge = "none"
                     /\ \E code \in {"400", "502", "5032"} : Replied(c, code)
            /\ q[n].s \notin {"0", "200"} =>
                  /\ r.in_charge = "none"
                  /\ Replied(c, q[n].s)
            /\ q[n].s = "0" =>
                  /\ n = Len(HandlerOrder)
                  /\ r.in_charge = "none"
                  /\ Replied(c, "404")

\* C23: a tunnel request goes to the RPC tunnel without a handler being
\* asked; for any other request the plugin, FastCGI and cache handlers are
\* asked in that order, the first that answers 200 takes the request, the
\* first that answers another non-zero code makes that the reply and no
\* later handler is asked, and when all answer 0 the reply is 404
C23_OwnerByPriority ==
    [][\A c \in Contexts :
          (HeadHandled(c)
           /\ (ctx'[c].attempt = "none" \/ ctx'[c].b_authed)
           /\ ctx'[c].attempt \notin {"denied", "nomaildir", "bad"}) =>
             OwnerByPriority(c)]_vars

\* the plugin handler said "not mine" and the FastCGI handler an error code:
\* that code is the reply and the cache handler was not asked
C23_Witness ==
    \E c \in Contexts :
       /\ ctx[c].method = "GET"
       /\ ctx[c].asked = <<Asked("hpm", "0"), Asked("fcgi", "403")>>
       /\ ctx[c].stream_out = <<"403">>
       /\ ctx[c].in_charge = "none"
       /\ ctx[c].sched_stat = "wrrep"

\* C24: every failed login adds one to the failure counter of the context,
\* and the user is put on the temp list exactly when the failures since the
\* last successful login on that context have reached max_auth_times
C24_BlockOnConsecutive ==
    [][\A c \in Contexts :
          (HeadHandled(c) /\ ctx'[c].attempt = "bad") =>
             /\ ctx'[c].auth_times = ctx[c].auth_times + 1
             /\ ctx'[c].blocked <=> ctx'[c].streak >= g_max_auth_times]_vars

\* the head of a tunnel request has been handled without the login or the
\* length of the request line ending it first
TunnelUriSeen(c) ==
    /\ HeadHandled(c)
    /\ ctx'[c].method \in RpcMethods
    /\ ctx'[c].attempt \in {"none", "good"}
    /\ uri_len(ctx'[c].uri) < uri_limit

\* C25: a tunnel request whose URI is not of the form
\* (/rpc|/rpcwithcert)/rpcproxy.dll?<host>:<port>, or whose host is longer
\* than 127 bytes, or whose port is not a decimal number, is answered 400,
\* and no channel is allocated for it
C25_BadUri400 ==
    [][\A c \in Contexts :
          (TunnelUriSeen(c) /\ ~WellFormed(ctx'[c].uri)) =>
             /\ Replied(c, "400")
             /\ ctx'[c].pchannel = "null"]_vars

\* C26: a request whose URI is uri_limit bytes long is not answered 414, and
\* one whose URI is uri_limit + 1 bytes long is answered 414
C26_UriLimit ==
    [][\A c \in Contexts :
          HeadHandled(c) =>
             /\ uri_len(ctx'[c].uri) = uri_limit => ~Replied(c, "414")
             /\ uri_len(ctx'[c].uri) = uri_limit + 1 => Replied(c, "414")]_vars

\* context c waits in RDBODY for its next PDU
RestsInRdBody(c) ==
    /\ ctx[c].sockd
    /\ pc[c] = "idle"
    /\ ctx[c].sched_stat = "rdbody"
    /\ ctx[c].method \in RpcMethods

\* the step is one of htparse_rdbody for context c
RdBodyStep(c) ==
    /\ RestsInRdBody(c)
    /\ pc'[c] # pc[c] \/ ctx'[c] # ctx[c]

\* the step ends the connection of context c
Ended(c) == ~ctx'[c].sockd \/ (pc'[c] = "body" /\ frame'[c].op = "end")

\* C27 as stated: a context on the RPC path that has received exactly
\* Content-Length body bytes does not stay in RDBODY but goes on to WRREP,
\* and one that has received more than Content-Length, bytes that came with
\* the head included, is closed by htparse_rdbody
C27_ExactToWrRep ==
    /\ [](\A c \in Contexts :
            (RestsInRdBody(c) /\ ctx[c].total_length > 0
             /\ ctx[c].stream_in = <<>>) =>
               ctx[c].bytes_rw # ctx[c].total_length)
    /\ [][\A c \in Contexts :
            (RdBodyStep(c) /\ ctx[c].total_length > 0
             /\ ctx'[c].bytes_rw > ctx[c].total_length) => Ended(c)]_vars

\* context c has handled a PDU whose header says frag_length 0
ZeroHandled(c) ==
    /\ RdBodyStep(c)
    /\ IF ctx[c].stream_in = <<>> THEN env'.n.zeros = env.n.zeros + 1
       ELSE ZeroAtHead(ctx[c])

\* C28: a PDU whose fragment length is 0 closes the tunnel in every channel
\* state, and no context is left in RDBODY with that PDU at the head of
\* its stream, to be dispatched on the same bytes again
C28_ZeroFragCloses ==
    /\ [][\A c \in Contexts : ZeroHandled(c) => Ended(c)]_vars
    /\ [](\A c \in Contexts : ~(RestsInRdBody(c) /\ ZeroAtHead(ctx[c])))

\* an opened OUT channel rests in WAIT, about to run htparse_wait
AtWait(c) ==
    /\ Dispatch(c, "wait")
    /\ OutOpened(c)
    /\ ctx[c].in_charge # "hpm"

\* half of client_keepalive has passed since the last transfer of c
Due(c) == ctx[c].elapsed >= chan[c].client_keepalive \div 2

\* htparse_wait has built a ping for c and is about to queue it
PingCall(c) == pc[c] = "idle" /\ pc'[c] = "body" /\ frame'[c].op = "ping"

\* a ping waits in the queue of c to be written
PingQueued(c) ==
    /\ ctx[c].sockd
    /\ \E i \in DOMAIN chan[c].pdu_list : chan[c].pdu_list[i].kind = "ping"

\* htparse_wait pings only after half of client_keepalive, and the ping is
\* queued with the context in WRREP
PingWhenDue ==
    [][\A c \in Contexts :
          /\ PingCall(c) => AtWait(c) /\ Due(c)
          /\ (pc[c] = "body" /\ frame[c].op = "ping" /\ pc'[c] # "body") =>
                /\ chan'[c].pdu_list = Append(chan[c].pdu_list, Pdu("ping", 0))
                /\ ctx'[c].sched_stat = "wrrep"]_vars

\* a context in WAIT whose socket reports the end of the connection is
\* torn down
LostIsEnded ==
    [][\A c \in Contexts :
          (AtWait(c) /\ env'.n.closes = env.n.closes + 1
           /\ (pc'[c] # pc[c] \/ ctx'[c] # ctx[c])) => Ended(c)]_vars

\* the bytes of a written ping leave the window and the byte count alone
PingNotCounted ==
    [][\A c \in Contexts :
          (pc[c] = "body" /\ frame[c].op = "debit" /\ pc'[c] # "body"
           /\ IF chan[c].pdu_list = <<>> THEN FALSE
              ELSE Head(chan[c].pdu_list).kind = "ping") =>
             /\ chan'[c].available_window = chan[c].available_window
             /\ chan'[c].bytes_sent = chan[c].bytes_sent]_vars

\* a context in WAIT with half of client_keepalive gone gets its ping
\* queued, unless it leaves WAIT for another reason
DueIsPinged ==
    \A c \in Contexts :
       (AtWait(c) /\ Due(c) /\ May("pings")) ~>
          (PingQueued(c) \/ ~AtWait(c))

\* a queued ping is written, or its connection ends
PingIsWritten == \A c \in Contexts : PingQueued(c) ~> ~PingQueued(c)

\* C29: an opened OUT channel in WAIT whose last transfer is half of
\* client_keepalive or more ago queues a ping and moves to WRREP, one that
\* has been idle for less stays idle, one whose socket reports the end of
\* the connection is torn down; the ping is eventually written, and its
\* bytes are not counted against the flow-control window
C29_PingWritten ==
    /\ PingWhenDue
    /\ LostIsEnded
    /\ PingNotCounted
    /\ DueIsPinged
    /\ PingIsWritten

\* http_parser_reconstruct_stream has just run on the stream_in of c
Rebuilt(c) == ~ctx[c].rebuilt /\ ctx'[c].rebuilt

\* C30: http_parser_reconstruct_stream replaces a stream by one that holds
\* exactly the unread bytes of the source, in their order, from the head,
\* and returns its total length (0 when nothing is unread), however the
\* unread bytes are split across the blocks of the source; when a block
\* cannot be allocated it returns a negative value and the caller ends
\* that request alone
C30_ReconstructUnread ==
    [][\A c \in Contexts :
          Rebuilt(c) =>
             /\ \A o \in Contexts \ {c} : ctx'[o] = ctx[o]
             /\ IF ctx'[c].tl < 0
                THEN ctx'[c].b_close /\ ctx'[c].sched_stat = "wrrep"
                ELSE /\ ctx'[c].stream = Stream(unread(ctx[c].stream), 0)
                     /\ ctx'[c].tl = Len(unread(ctx[c].stream))]_vars

\* the step hands a PDU of context c to the processor of its VC
Processed(c) ==
    /\ pc[c] = "body" /\ frame[c].op = "forward"
    /\ pc'[c] = "put" /\ frame'[c].ret = "processed"

\* the RTS parser of context c has just said FORWARD for an RPC PDU
Forwarding(c) ==
    /\ pc[c] = "idle" /\ ctx[c].sched_stat = "rdbody"
    /\ env'.n.pdus = env.n.pdus + 1
    /\ pc'[c] # pc[c] \/ ctx'[c] # ctx[c]

\* the step, or the response it queues, ends the connection of context c
Closing(c) ==
    \/ Ended(c)
    \/ ctx'[c].b_close /\ ctx'[c].sched_stat = "wrrep"

\* C31: a PDU goes to the processor of a VC only from a context whose IN
\* channel is OPENED, that is the IN context of that VC, and whose VC has a
\* processor; a FORWARD of the RTS parser anywhere else (OUT channel, IN
\* channel not OPENED, no VC, not the IN context) closes the tunnel and the
\* processor is not called
C31_ForwardOnlyCtxIn ==
    [][\A c \in Contexts :
          /\ Processed(c) =>
                /\ ctx[c].channel_type = "in"
                /\ chan[c].channel_stat = "opened"
                /\ g_vconnection_hash[frame[c].k].present
                /\ g_vconnection_hash[frame[c].k].pcontext_in = c
                /\ g_vconnection_hash[frame[c].k].pprocessor
          /\ (Forwarding(c)
              /\ ~(ctx[c].channel_type = "in"
                   /\ chan[c].channel_stat = "opened")) => Closing(c)
          /\ (pc[c] = "body" /\ frame[c].op = "forward" /\ pc'[c] # "body"
              /\ ~Processed(c)) =>
                pc'[c] \in {"runoff", "put"} /\ frame'[c].ret = "runoff"]_vars

\* an IN context that is no longer the IN context of its VC has had a
\* FORWARD refused
C31_Witness ==
    \E c \in Contexts :
       /\ pc[c] = "put" /\ frame[c].op = "forward" /\ frame[c].ret = "runoff"
       /\ chan[c].channel_stat = "opened"

\* ------------------------------------------------- routing of a response
\* the step that routes the response of context c
Routes(c) == pc[c] = "body" /\ frame[c].op = "output" /\ pc'[c] # "body"

\* the VC of the context has an OUT channel to send its response on
Paired(c) ==
    /\ frame[c].found
    /\ LET v == g_vconnection_hash[frame[c].k]
       IN /\ c = v.pcontext_in \/ c = v.pcontext_insucc
          /\ v.pcontext_out # NULL

\* the list has grown at its tail, first by the PDU p
Queued(old, new, p) ==
    /\ Len(new) > Len(old)
    /\ SubSeq(new, 1, Len(old) + 1) = Append(old, p)

ChannelStats ==
    {"openstart", "waitinchannel", "recycling", "waitrecycled", "opened",
     "recycled"}

\* the response of OUT channel c is opened in this step: the 200 head and
\* the PDUs of the call are in stream_out, the call is kept, and the
\* channel goes from state from to state to
Opens(c, from, to) ==
    /\ chan[c].channel_stat = from
    /\ chan'[c].channel_stat = to
    /\ ctx'[c].stream_out = ctx[c].stream_out \o <<"200", "pdu">>
    /\ ctx'[c].total_length = OUT_CHANNEL_MAX_LENGTH
    /\ ctx'[c].bytes_rw = 0
    /\ ctx'[c].sched_stat = "wrrep"
    /\ chan'[c].pcall
    /\ pc'[c] = "idle"

\* the handler of OUT context c goes on with the result OUTPUT of the RTS
\* parser, and its stream can be rebuilt
OutOutput(c) ==
    /\ ctx[c].channel_type = "out"
    /\ pc[c] = "consume"
    /\ frame[c].res = "OUTPUT"
    /\ pc'[c] # "consume"
    /\ env'.n.faults = env.n.faults

Takes(kind) ==
    /\ env'.n[kind] = env.n[kind] + 1
    /\ env'.n.faults = env.n.faults

\* context c is in RDBODY with a channel
Reading(c) ==
    /\ pc[c] = "idle"
    /\ ctx[c].sockd
    /\ ctx[c].sched_stat = "rdbody"
    /\ ctx[c].pchannel # "null"

\* the IN channel of c is OPENED
OpenedIn(c) == ctx[c].channel_type = "in" /\ chan[c].channel_stat = "opened"

\* the handler of c has consumed a PDU and nothing else has happened
Swallowed(c) ==
    /\ ctx' = [ctx EXCEPT ![c] = take(@, 1)]
    /\ chan' = chan
    /\ pc' = pc
    /\ g_vconnection_hash' = g_vconnection_hash

\* C34: a PDU the RTS parser answers with ERROR is consumed like one it
\* answers with INPUT when it arrives on an IN channel in state OPENED: the
\* context stays in RDBODY and its channel and VC stay as they were; on an
\* IN channel in any other state and on an OUT channel the handler ends
\* the context
C34_ErrorDemoted ==
    [][/\ Takes("bad") =>
            \E c \in Contexts :
               /\ Reading(c)
               /\ ctx[c].channel_type = "in"
               /\ IF OpenedIn(c) THEN Swallowed(c) ELSE Ended(c)
       /\ Takes("outr2_c1") =>
            \E c \in Contexts :
               /\ Reading(c)
               /\ ctx[c].channel_type = "out"
               /\ chan[c].channel_stat # "recycling"
               /\ Ended(c)]_vars

\* the one connection there has been has opened an IN channel, has then
\* sent two PDUs the RTS parser refused, and is still in RDBODY
C34_Witness ==
    \E c \in Contexts :
       /\ env.n.accepts = 1
       /\ env.n.bad = 2
       /\ Reading(c)
       /\ OpenedIn(c)

\* ------------------------------------------------ the successor's request
\* the step in which recycle_inchannel or recycle_outchannel runs for c
Recycles(c, op) ==
    pc[c] = "body" /\ frame[c].op = op /\ pc'[c] # "body"

\* the four context slots of a VC
Slots(v) ==
    <<v.pcontext_in, v.pcontext_insucc, v.pcontext_out, v.pcontext_outsucc>>

\* the step leaves every slot of every VC, every channel and every context
\* as it was, and the call answers FALSE
Refused(c) ==
    /\ frame'[c].res = "ERROR"
    /\ chan' = chan
    /\ ctx' = ctx
    /\ \A k \in DOMAIN g_vconnection_hash :
          /\ Slots(g_vconnection_hash'[k]) = Slots(g_vconnection_hash[k])
          /\ g_vconnection_hash'[k].present = g_vconnection_hash[k].present

\* the VC of the call of c exists, its slot of that kind is bound, and the
\* cookie the call presents is the channel cookie of the context in it
Succeeds(c, p) ==
    /\ frame[c].found
    /\ p # NULL
    /\ frame[c].arg = chan[p].channel_cookie

Replies == {"401c", "200", "pdu", "data", "echo"}

\* an error page of http_done waits in stream_out of the connection of c
ErrorPending(c) ==
    /\ ctx[c].sockd
    /\ \E i \in 1 .. Len(ctx[c].stream_out) :
          ctx[c].stream_out[i] \notin Replies

\* http_done writes its reply for c in this step
ErrorWritten(c) ==
    /\ Len(ctx'[c].stream_out) = Len(ctx[c].stream_out) + 1
    /\ ctx'[c].stream_out[Len(ctx'[c].stream_out)] \notin Replies

\* the socket of c takes the last block of the reply of a context that has
\* no OUT channel and no handler in charge
Drains(c) ==
    /\ pc[c] = "idle"
    /\ ctx[c].sockd
    /\ ctx[c].sched_stat = "wrrep"
    /\ ctx[c].channel_type # "out"
    /\ ctx[c].in_charge = "none"
    /\ Len(ctx[c].stream_out) = 1
    /\ ctx'[c] # ctx[c]
    /\ env' = env

\* C36: when the last block of its reply is written, a context without an
\* OUT channel goes back to RDHEAD with the request cleared and stream_out
\* empty if b_close is false, and is closed if it is true.  http_done sets
\* b_close with the reply it writes; from then on the context stays in
\* WRREP with b_close set until it is closed, and it is closed
C36_DrainedCloses ==
    /\ [][\A c \in Contexts :
            /\ Drains(c) =>
                  IF ctx[c].b_close
                  THEN ~ctx'[c].sockd
                  ELSE /\ ctx'[c].sockd
                       /\ ctx'[c].sched_stat = "rdhead"
                       /\ ctx'[c].method = ""
                       /\ ctx'[c].uri = NoUri
                       /\ ctx'[c].stream_out = <<>>
            /\ ErrorWritten(c) =>
                  ctx'[c].b_close /\ ctx'[c].sched_stat = "wrrep"
            /\ ErrorPending(c) =>
                  \/ ~ctx'[c].sockd
                  \/ /\ ErrorPending(c)'
                     /\ ctx'[c].b_close
                     /\ ctx'[c].sched_stat = "wrrep"]_vars
    /\ \A c \in Contexts : ErrorPending(c) ~> ~ctx[c].sockd

\* the one connection there has been has had a reply after which it went
\* on to a second request, and now has an error page to write
C36_Witness ==
    \E c \in Contexts :
       /\ env.n.accepts = 1
       /\ env.n.requests >= 2
       /\ ErrorPending(c)

\* ------------------------------------------------- the slots after http_end
\* context s is live and has a channel of kind ty
LiveChannel(s, ty) ==
    /\ ctx[s].sockd
    /\ ctx[s].channel_type = ty
    /\ ctx[s].pchannel = ty

\* C37: every slot of a VC that is not null refers to a context that is
\* open and has a channel of the kind of the slot; a context that http_end
\* has closed is in no slot
C37_SlotsLive ==
    \A k \in DOMAIN g_vconnection_hash :
       LET v == g_vconnection_hash[k]
       IN /\ v.pcontext_in # NULL => LiveChannel(v.pcontext_in, "in")
          /\ v.pcontext_insucc # NULL => LiveChannel(v.pcontext_insucc, "in")
          /\ v.pcontext_out # NULL => LiveChannel(v.pcontext_out, "out")
          /\ v.pcontext_outsucc # NULL
                => LiveChannel(v.pcontext_outsucc, "out")

\* ------------------------------------------------------ the active slots
\* http_end of context p runs on its VC in this step
Unbinds(p) == pc[p] = "body" /\ frame[p].op = "end" /\ pc'[p] # "body"

\* the step changes the slot with value old to new in one of the two ways
\* there are: the context in it closes, or an activation puts the
\* registered successor succ there and empties the slot of the successor
SlotStep(old, new, succ, succ1) ==
    \/ new = old
    \/ old = NULL
    \/ new = NULL /\ Unbinds(old)
    \/ succ # NULL /\ new = succ /\ succ1 = NULL

\* C38: the IN slot and the OUT slot of a VC, once bound, change only when
\* the context in the slot closes or an activation promotes the registered
\* successor; no further tunnel with the same connection cookie replaces
\* the active context
C38_SlotStable ==
    [][\A k \in DOMAIN g_vconnection_hash :
          LET v == g_vconnection_hash[k]
              w == g_vconnection_hash'[k]
          IN /\ SlotStep(v.pcontext_in, w.pcontext_in,
                         v.pcontext_insucc, w.pcontext_insucc)
             /\ SlotStep(v.pcontext_out, w.pcontext_out,
                         v.pcontext_outsucc, w.pcontext_outsucc)]_vars

\* ------------------------------------------------------ windows that wrap
\* the bytes the step counts as received on the IN channel of c
Received(c) == Word(chan'[c].bytes_received - chan[c].bytes_received)

\* C39: the bytes debited for a write on an opened OUT channel are never
\* more than available_window holds when they are debited, whatever the IN
\* context has done to the window between the write and the debit; and the
\* bytes of a fragment counted on an IN channel are never more than its
\* available_window holds
C39_WindowNoWrap ==
    [][\A c \in Contexts :
          /\ (Debited(c) /\ ~b_rts(Head(chan[c].pdu_list)))
                => frame[c].arg <= chan[c].available_window
          /\ Processed(c) => Received(c) <= chan[c].available_window]_vars

\* ------------------------------------------- a forced write before OPENED
\* an OUT channel that has sent CONN/A1 or OUT_R2/A1..A3 and waits for its
\* IN channel or for the old OUT channel to end
Handshaking(o) ==
    /\ ctx[o].sockd
    /\ ctx[o].channel_type = "out"
    /\ ctx[o].pchannel # "null"
    /\ chan[o].channel_stat \in {"waitinchannel", "waitrecycled"}

\* a peer queued a PDU on the channel and set sched_stat to WRREP (lines
\* 1509-1511 and 1598-1599) while nothing is left in stream_out
Forced(o) ==
    /\ Handshaking(o)
    /\ pc[o] = "idle"
    /\ ctx[o].sched_stat = "wrrep"
    /\ ctx[o].stream_out = <<>>
    /\ ctx[o].write_buff = NoBuf
    /\ chan[o].pdu_list # <<>>

\* C40: an OUT context whose scheduling state a peer forced to WRREP while
\* its channel is in WAIT_IN_CHANNEL or WAIT_RECYCLED is not closed by its
\* next step: the empty out-stream is not taken for a lost connection
C40_ForcedNotClosed ==
    [][\A o \in Contexts :
          (Forced(o) /\ (ctx'[o] # ctx[o] \/ pc'[o] # pc[o])) => ~Ended(o)]_vars

====
